---- MODULE Spec2Model ----
(***************************************************************************)
(* ReprodLocal: the store set-up script (scripts/setup-database.ps1), the  *)
(* relational schema it declares, and the player's progress tracking       *)
(* (components/VideoPlayer.tsx with the videosApi / playerApi it calls).    *)
(***************************************************************************)
EXTENDS Integers, Sequences, FiniteSets, TLC

VARIABLES
  db,        \* the store file: existence, tables, indexes, rows, settings, metadata
  now,       \* the value datetime('now') returns
  lastRun,   \* what the last run of the script did and reported
  courses,   \* rows of the table courses (ids)
  modules,   \* rows of modules: [id, course_id]
  videos,    \* rows of videos: [id, module_id, course_id]
  video_progress,   \* rows of video_progress: [id, video_id]
  user_notes,       \* rows of user_notes: [id, video_id, course_id, module_id]
  video_bookmarks,  \* rows of video_bookmarks: [id, video_id]
  activity_log,     \* rows of activity_log: [id, activity_type, entity_id, entity_type, created_at]
  lastSql,   \* the last statement run on these tables
  mounted,            \* VideoPlayer: the component is mounted
  video,              \* VideoPlayer: the video prop
  isPlaying,          \* VideoPlayer: isPlaying state
  progress,           \* VideoPlayer: progress state
  intervalRef,        \* VideoPlayer: progressUpdateInterval.current (0 is null)
  timers,             \* the intervals that are set, each with what its callback closed over
  callbacks,          \* interval callbacks that have started and not yet finished
  playPending,        \* handlePlay is between the element's play event and playerApi.playVideo
  mockPlayerStatus,   \* api: the player's status
  mockVideoProgress,  \* api: the progress rows
  lastTick,           \* history: the video interval callbacks wrote last, and how many times since the position was last set
  autoDone,           \* history: videos an interval callback stored completed = true for, at a duration above 0
  cleared,            \* history: videos marked incomplete that no interval callback has since found at or past the threshold
  hook,               \* the step just taken, as onVideoComplete saw it: who could call it, whether it was called, and whether an interval callback had stored completed = true before
  notes,              \* NotesSidebar: notes state (the list last loaded)
  bookmarks,          \* NotesSidebar: bookmarks state
  isCreatingNote,     \* NotesSidebar: the note form is open
  isCreatingBookmark, \* NotesSidebar: the bookmark form is open
  newNote,            \* NotesSidebar: the note form's values
  newBookmark,        \* NotesSidebar: the bookmark form's values
  searchTerm,         \* NotesSidebar: searchTerm state
  selectedNoteType,   \* NotesSidebar: selectedNoteType state
  sortBy,             \* NotesSidebar: sortBy state
  sortOrder,          \* NotesSidebar: sortOrder state
  filteredNotes,      \* NotesSidebar: filteredNotes state
  editingNote,        \* NotesSidebar: editingNote state (<< >> is null, else the note with the values typed)
  loading,            \* NotesSidebar: a loadNotes / loadBookmarks a handler started has not resolved yet
  lastCall,           \* the handler that ran last: whether it called the api, with which id, and what came back
  currentVideo,       \* FolderBrowserPage: currentVideo state (the file's path, NULL for null)
  playlist,           \* FolderBrowserPage: playlist state
  currentIndex,       \* FolderBrowserPage: currentIndex state
  tracking,           \* the page's VideoPlayer: its interval is set
  inflight,           \* the page's VideoPlayer: interval callbacks under way, each with the handleVideoComplete it closed over
  currentPath,        \* FolderBrowser: currentPath state (a path is the sequence of its segments, << >> is '')
  pathHistory,        \* FolderBrowser: pathHistory state
  folderContent,      \* FolderBrowser: folderContent state (<< >> is null, else <<the path scanned>>)
  browserLoading,     \* FolderBrowser: loading state
  selectedFiles,      \* FolderBrowser: selectedFiles state
  scan                \* FolderBrowser: the handler that is awaiting folderApi, and the path it asked for

dbVars == <<db, now, lastRun>>

relVars == <<courses, modules, videos, video_progress, user_notes,
             video_bookmarks, activity_log, lastSql>>

playerVars == <<mounted, video, isPlaying, progress, intervalRef, timers, callbacks,
                playPending, mockPlayerStatus, mockVideoProgress, lastTick, autoDone,
                cleared, hook>>

sidebarVars == <<notes, bookmarks, isCreatingNote, isCreatingBookmark, newNote,
                 newBookmark, searchTerm, selectedNoteType, sortBy, sortOrder,
                 filteredNotes, editingNote, loading, lastCall>>

pageVars == <<currentVideo, playlist, currentIndex, tracking, inflight>>

browserVars == <<currentPath, pathHistory, folderContent, browserLoading,
                 selectedFiles, scan>>

vars == <<dbVars, relVars, playerVars, sidebarVars, pageVars, browserVars>>

DbFrame == UNCHANGED <<relVars, playerVars, sidebarVars, pageVars, browserVars>>

RelFrame == UNCHANGED <<dbVars, playerVars, sidebarVars, pageVars, browserVars>>

PlayerFrame == UNCHANGED <<dbVars, relVars, sidebarVars, pageVars, browserVars>>

NULL == "NULL"

(***************************************************************************)
(* api: mock data and the player's simulated status                         *)
(***************************************************************************)
MockDuration == 1800     \* playVideo: "30 minutos simulados"

VideoIds == {"1", "2"}

SeekTimes == {0, 1709, 1710}

\* mockVideoProgress as the module is loaded (the row of video '1');
\* watch_count 0 stands for an object that has no watch_count
InitialVideoProgress ==
  << [video_id |-> "1", current_time |-> 600, duration |-> 1200, completed |-> FALSE,
      watch_count |-> 0] >>

InitialPlayerStatus == [is_playing |-> FALSE, current_time |-> 0, duration |-> 0]

NoProgress ==
  [kind |-> "null", video_id |-> NULL, current_time |-> 0, duration |-> 0,
   completed |-> FALSE]

NoTick == [video |-> NULL, repeats |-> 0]

\* no step that reaches onVideoComplete has just been taken
NoHook == [by |-> "none", video |-> NULL, called |-> FALSE, was |-> FALSE,
           completed |-> FALSE]

\* the player as it is mounted, before a video is chosen
PlayerIdle ==
  /\ mounted = TRUE
  /\ video = NULL
  /\ isPlaying = FALSE
  /\ progress = NoProgress
  /\ intervalRef = 0
  /\ timers = {}
  /\ callbacks = << >>
  /\ playPending = FALSE
  /\ mockPlayerStatus = InitialPlayerStatus
  /\ hook = NoHook
  /\ mockVideoProgress = InitialVideoProgress
  /\ lastTick = NoTick
  /\ autoDone = {}
  /\ cleared = {}

\* the note form and the bookmark form as useState sets them
EmptyNote ==
  [title |-> << >>, content |-> << >>, noteType |-> "general", timestamp |-> 0]

EmptyBookmark == [title |-> << >>, description |-> << >>, timestamp |-> 0]

NoCall == [handler |-> "none", called |-> FALSE, found |-> FALSE, result |-> "none"]

\* NotesSidebar as it is mounted
SidebarIdle ==
  /\ notes = << >>
  /\ bookmarks = << >>
  /\ isCreatingNote = FALSE
  /\ isCreatingBookmark = FALSE
  /\ newNote = EmptyNote
  /\ newBookmark = EmptyBookmark
  /\ searchTerm = << >>
  /\ selectedNoteType = "all"
  /\ sortBy = "timestamp"
  /\ sortOrder = "asc"
  /\ filteredNotes = << >>
  /\ editingNote = << >>
  /\ loading = FALSE
  /\ lastCall = NoCall

\* FolderBrowserPage as useState sets it, its player idle
PageIdle ==
  /\ currentVideo = NULL
  /\ playlist = << >>
  /\ currentIndex = 0
  /\ tracking = FALSE
  /\ inflight = {}

NoScan == [pc |-> "idle", path |-> << >>]

\* FolderBrowser as useState sets it
BrowserIdle ==
  /\ currentPath = << >>
  /\ pathHistory = << >>
  /\ folderContent = << >>
  /\ browserLoading = FALSE
  /\ selectedFiles = {}
  /\ scan = NoScan

\* the tables of the schema with no rows in them
RelEmpty ==
  /\ courses = {} /\ modules = {} /\ videos = {}
  /\ video_progress = {} /\ user_notes = {} /\ video_bookmarks = {}
  /\ activity_log = {}
  /\ lastSql = [op |-> "none", id |-> NULL, cascaded |-> 0]

(***************************************************************************)
(* Bounds                                                                  *)
(***************************************************************************)
MaxNow == 2        \* the clock takes the values 0..MaxNow
MaxFail == 1       \* statements of one sqlite3 invocation that may fail

(***************************************************************************)
(* The schema: $createTablesSQL and $createIndexesSQL                      *)
(***************************************************************************)
TableNames ==
  {"courses", "modules", "videos", "video_progress", "user_notes",
   "video_bookmarks", "user_settings", "activity_log", "database_metadata"}

V2Tables == {"user_notes", "video_bookmarks", "user_settings", "activity_log"}

IndexNames ==
  {"idx_modules_course_id", "idx_videos_module_id", "idx_videos_course_id",
   "idx_video_progress_video_id", "idx_user_notes_video_id",
   "idx_user_notes_course_id", "idx_user_notes_timestamp",
   "idx_video_bookmarks_video_id", "idx_activity_log_type",
   "idx_activity_log_created", "idx_user_settings_key"}

IndexTable(i) ==
  CASE i = "idx_modules_course_id" -> "modules"
    [] i \in {"idx_videos_module_id", "idx_videos_course_id"} -> "videos"
    [] i = "idx_video_progress_video_id" -> "video_progress"
    [] i \in {"idx_user_notes_video_id", "idx_user_notes_course_id",
              "idx_user_notes_timestamp"} -> "user_notes"
    [] i = "idx_video_bookmarks_video_id" -> "video_bookmarks"
    [] i \in {"idx_activity_log_type", "idx_activity_log_created"} -> "activity_log"
    [] OTHER -> "user_settings"

(***************************************************************************)
(* $defaultSettingsSQL: the seven default rows                             *)
(***************************************************************************)
DefaultSettings ==
  { [id |-> "setting_theme",     key |-> "theme",              value |-> "dark",  type |-> "string"],
    [id |-> "setting_auto_play", key |-> "auto_play_next",     value |-> "true",  type |-> "boolean"],
    [id |-> "setting_speed",     key |-> "playback_speed",     value |-> "1.0",   type |-> "number"],
    [id |-> "setting_volume",    key |-> "volume",             value |-> "0.8",   type |-> "number"],
    [id |-> "setting_auto_save", key |-> "auto_save_progress", value |-> "true",  type |-> "boolean"],
    [id |-> "setting_subtitles", key |-> "show_subtitles",     value |-> "false", type |-> "boolean"],
    [id |-> "setting_language",  key |-> "language",           value |-> "pt-BR", type |-> "string"] }

\* INSERT OR REPLACE: the rows in the way are deleted
InsertOrReplaceSettings(settings, rows) ==
  {s \in settings : \A r \in rows : r.id # s.id /\ r.key # s.key} \cup rows

\* INSERT OR IGNORE: a row is skipped when its id (PRIMARY KEY) or its
\* setting_key (UNIQUE) is already taken; the rows of one statement do not
\* collide with each other.
InsertOrIgnoreSettings(settings, rows) ==
  settings \cup
    {r \in rows : \A s \in settings : s.id # r.id /\ s.key # r.key}

\* INSERT OR REPLACE INTO database_metadata: version, created_at, last_migration
InsertOrReplaceMetadata(meta, t) ==
  [version |-> "2", created_at |-> t, last_migration |-> t]

NoMetadata == [version |-> "none", created_at |-> -1, last_migration |-> -1]

(***************************************************************************)
(* Stores                                                                   *)
(***************************************************************************)
SampleRows == {"course-1", "video-1"}

RowTable(r) == IF r = "course-1" THEN "courses" ELSE "videos"

AbsentStore ==
  [exists |-> FALSE, tables |-> {}, indexes |-> {}, data |-> {},
   settings |-> {}, meta |-> NoMetadata]

\* A store written by the previous release: the four course tables with
\* their rows, and version 1 in its metadata.
V1Store(rows) ==
  [exists |-> TRUE,
   tables |-> TableNames \ V2Tables,
   indexes |-> {i \in IndexNames : IndexTable(i) \notin V2Tables},
   data |-> rows,
   settings |-> {},
   meta |-> [version |-> "1", created_at |-> 0, last_migration |-> 0]]

\* A store written by a later release: every table of this one, version 3.
FutureStore ==
  [exists |-> TRUE, tables |-> TableNames, indexes |-> IndexNames,
   data |-> SampleRows, settings |-> DefaultSettings,
   meta |-> [version |-> "3", created_at |-> 0, last_migration |-> 0]]

InitialStores ==
  {AbsentStore, FutureStore} \cup {V1Store(rows) : rows \in SUBSET SampleRows}

(***************************************************************************)
(* Initialize-Database: three sqlite3 invocations, each statement its own  *)
(* transaction; the function stops at the first invocation that exits      *)
(* with an error.                                                           *)
(***************************************************************************)
Failures ==
  {f \in [tables : SUBSET TableNames, indexes : SUBSET IndexNames,
          seed : BOOLEAN, meta : BOOLEAN] :
     Cardinality(f.tables) + Cardinality(f.indexes)
       + (IF f.seed THEN 1 ELSE 0) + (IF f.meta THEN 1 ELSE 0) <= MaxFail}

\* the exit code of the invocation is not looked at
createTablesUnchecked(store, failed) ==
  LET made == TableNames \ failed
  IN  [store |-> [store EXCEPT !.exists = store.exists \/ made # {},
                               !.tables = store.tables \cup made],
       ok |-> TRUE]

\* $createTablesSQL | sqlite3 $DbPath
createTablesSQL(store, failed) ==
  LET made == TableNames \ failed
  IN  [store |-> [store EXCEPT !.exists = store.exists \/ made # {},
                               !.tables = store.tables \cup made],
       ok |-> failed = {}]

\* $createIndexesSQL | sqlite3 $DbPath
createIndexesSQL(store, failed) ==
  LET made == {i \in IndexNames \ failed : IndexTable(i) \in store.tables}
  IN  [store |-> [store EXCEPT !.indexes = store.indexes \cup made],
       ok |-> made = IndexNames]

\* $defaultSettingsSQL | sqlite3 $DbPath
defaultSettingsSQL(store, failSeed, failMeta, t) ==
  LET seedRuns == ~failSeed /\ "user_settings" \in store.tables
      metaRuns == ~failMeta /\ "database_metadata" \in store.tables
  IN  [store |-> [store EXCEPT
                    !.settings = IF seedRuns
                                 THEN InsertOrIgnoreSettings(store.settings, DefaultSettings)
                                 ELSE store.settings,
                    !.meta = IF metaRuns
                             THEN InsertOrReplaceMetadata(store.meta, t)
                             ELSE store.meta],
       ok |-> seedRuns /\ metaRuns]

InitializeDatabase(store, f, t) ==
  LET r1 == createTablesSQL(store, f.tables)
      r2 == createIndexesSQL(r1.store, f.indexes)
      r3 == defaultSettingsSQL(r2.store, f.seed, f.meta, t)
  IN  IF ~r1.ok THEN r1
      ELSE IF ~r2.ok THEN r2
      ELSE r3

(***************************************************************************)
(* Verify-Database                                                          *)
(***************************************************************************)
VerifyDatabase(store) ==
  IF ~store.exists THEN [ok |-> FALSE, label |-> "none"]
  ELSE IF TableNames \ store.tables # {} THEN [ok |-> FALSE, label |-> "none"]
  ELSE [ok |-> TRUE,
        label |-> IF store.meta.version = "2" THEN "OK" ELSE "DESATUALIZADA"]

(***************************************************************************)
(* The script's entry points                                                *)
(***************************************************************************)
Report(op, ok, label) == [op |-> op, ok |-> ok, label |-> label]

\* Remove-Item $dbPath -Force; Initialize-Database $dbPath
Recreate(store, f, t) == InitializeDatabase(AbsentStore, f, t)

\* the initialisation without the Test-Path guard
AlwaysInitialize(store, f, t) == InitializeDatabase(store, f, t)

\* no switch: an existing file is left alone
DefaultEntry(store, f, t) ==
  IF store.exists THEN [store |-> store, ok |-> TRUE]
  ELSE InitializeDatabase(store, f, t)

RunDefault(f) ==
  LET r == DefaultEntry(db, f, now)
  IN  /\ db' = r.store
      /\ lastRun' = Report(IF db.exists THEN "exists" ELSE "init", r.ok, "none")
      /\ UNCHANGED now
      /\ DbFrame

RunForce(f) ==
  LET r == Recreate(db, f, now)
  IN  /\ db' = r.store
      /\ lastRun' = Report("force", r.ok, "none")
      /\ UNCHANGED now
      /\ DbFrame

RunVerify ==
  LET r == VerifyDatabase(db)
  IN  /\ lastRun' = Report("verify", r.ok, r.label)
      /\ UNCHANGED <<db, now>>
      /\ DbFrame

\* Show-Menu: 1 initialise (asking before it overwrites), 2 verify, 3 recreate
ShowMenu(choice, overwrite, f) ==
  /\ choice \in {"1", "2", "3"}
  /\ UNCHANGED now
  /\ DbFrame
  /\ CASE choice = "1" /\ db.exists /\ ~overwrite ->
            /\ db' = db
            /\ lastRun' = Report("cancelled", TRUE, "none")
       [] choice = "1" /\ db.exists /\ overwrite ->
            LET r == Recreate(db, f, now)
            IN  db' = r.store /\ lastRun' = Report("force", r.ok, "none")
       [] choice = "1" /\ ~db.exists ->
            LET r == InitializeDatabase(db, f, now)
            IN  db' = r.store /\ lastRun' = Report("init", r.ok, "none")
       [] choice = "2" ->
            LET r == VerifyDatabase(db)
            IN  db' = db /\ lastRun' = Report("verify", r.ok, r.label)
       [] choice = "3" ->
            LET r == Recreate(db, f, now)
            IN  db' = r.store /\ lastRun' = Report("force", r.ok, "none")

(***************************************************************************)
(* The application using the store between runs of the script              *)
(***************************************************************************)
UserValues ==
  [k \in {"theme", "playback_speed"} |->
     IF k = "theme" THEN {"dark", "light"} ELSE {"1.0", "1.5"}]

\* set_user_setting: the value of an existing key is updated in place
SetUserSetting(k, v) ==
  /\ db.exists
  /\ \E s \in db.settings : s.key = k /\ s.value # v
  /\ db' = [db EXCEPT !.settings =
              {IF s.key = k THEN [s EXCEPT !.value = v] ELSE s : s \in db.settings}]
  /\ lastRun' = Report("app", TRUE, "none")
  /\ UNCHANGED now
  /\ DbFrame

\* the scanner adds a course or video row
AddRow(r) ==
  /\ db.exists
  /\ RowTable(r) \in db.tables
  /\ r \notin db.data
  /\ db' = [db EXCEPT !.data = db.data \cup {r}]
  /\ lastRun' = Report("app", TRUE, "none")
  /\ UNCHANGED now
  /\ DbFrame

ClockTick ==
  /\ now < MaxNow
  /\ now' = now + 1
  /\ lastRun' = Report("app", TRUE, "none")
  /\ UNCHANGED db
  /\ DbFrame

DbInit ==
  /\ db \in InitialStores
  /\ now = 1
  /\ lastRun = Report("none", TRUE, "none")
  /\ RelEmpty
  /\ PlayerIdle
  /\ SidebarIdle /\ PageIdle /\ BrowserIdle

DbNext ==
  \/ \E f \in Failures : RunDefault(f)
  \/ \E f \in Failures : RunForce(f)
  \/ RunVerify
  \/ \E c \in {"1", "2", "3"}, o \in BOOLEAN, f \in Failures : ShowMenu(c, o, f)
  \/ \E k \in DOMAIN UserValues : \E v \in UserValues[k] : SetUserSetting(k, v)
  \/ \E r \in SampleRows : AddRow(r)
  \/ ClockTick

SpecDb == DbInit /\ [][DbNext]_vars

(***************************************************************************)
(* The seed applied to a store the application has been using              *)
(***************************************************************************)
\* rows the application may hold for a key: the default, the default row
\* with a changed value, or a row set_user_setting created under its own id
SettingChoices(d) ==
  {{}, {d}} \cup
  (IF d.key \in DOMAIN UserValues
   THEN {{[d EXCEPT !.value = v]} : v \in UserValues[d.key]} \cup
        {{[d EXCEPT !.id = "app-" \o d.key, !.value = v]} : v \in UserValues[d.key]}
   ELSE {})

SeedKeys == {"theme", "playback_speed", "volume", "language"}

UsedStores ==
  {[exists |-> TRUE, tables |-> TableNames, indexes |-> IndexNames,
    data |-> SampleRows,
    settings |-> UNION {pick[k] : k \in SeedKeys},
    meta |-> [version |-> "2", created_at |-> 0, last_migration |-> 0]] :
     pick \in [SeedKeys ->
                 UNION {SettingChoices(d) : d \in {x \in DefaultSettings : x.key \in SeedKeys}}]}

\* initialize_default_settings: the seed invocation run against the store
InitializeDefaultSettings(failSeed, failMeta) ==
  LET r == defaultSettingsSQL(db, failSeed, failMeta, now)
  IN  /\ db' = r.store
      /\ lastRun' = Report("seed", r.ok, "none")
      /\ UNCHANGED now
      /\ DbFrame

SeedInit ==
  /\ db \in {s \in UsedStores :
               \A a \in s.settings, b \in s.settings : a.key = b.key => a = b}
  /\ now = 1
  /\ lastRun = Report("none", TRUE, "none")
  /\ RelEmpty
  /\ PlayerIdle
  /\ SidebarIdle /\ PageIdle /\ BrowserIdle

SeedNext ==
  \/ \E fs \in BOOLEAN, fm \in BOOLEAN :
       /\ (IF fs THEN 1 ELSE 0) + (IF fm THEN 1 ELSE 0) <= MaxFail
       /\ InitializeDefaultSettings(fs, fm)
  \/ \E k \in DOMAIN UserValues : \E v \in UserValues[k] : SetUserSetting(k, v)
  \/ ClockTick

SpecSeed == SeedInit /\ [][SeedNext]_vars

(***************************************************************************)
(* The rows of the schema and its foreign keys ($createTablesSQL, with      *)
(* PRAGMA foreign_keys = ON): a row is inserted only under parents that     *)
(* exist, and ON DELETE CASCADE removes the rows that reference a deleted   *)
(* row.                                                                     *)
(***************************************************************************)
CourseIds == {"c1", "c2"}
ModuleIds == {"m1", "m2"}
VideoRowIds == {"v1", "v2"}
ProgressIds == {"p1"}
NoteIds == {"n1"}
BookmarkIds == {"b1"}

Ids(rows) == {r.id : r \in rows}

\* modules.course_id REFERENCES courses (id) ON DELETE CASCADE
ModulesCascade(rows, delCourses) ==
  {m \in rows : m.course_id \in delCourses}

\* videos.module_id and videos.course_id, both ON DELETE CASCADE
VideosCascade(rows, delCourses, delModules) ==
  {v \in rows : v.course_id \in delCourses \/ v.module_id \in delModules}

\* video_progress.video_id ON DELETE CASCADE
ProgressCascade(rows, delVideos) ==
  {p \in rows : p.video_id \in delVideos}

\* user_notes with the foreign key on course_id left out
NotesCascadeVideoModule(rows, delCourses, delModules, delVideos) ==
  {n \in rows : n.video_id \in delVideos \/ n.module_id \in delModules}

\* user_notes.video_id, course_id and module_id, all ON DELETE CASCADE
NotesCascade(rows, delCourses, delModules, delVideos) ==
  {n \in rows : \/ n.video_id \in delVideos
                \/ n.course_id \in delCourses
                \/ n.module_id \in delModules}

\* video_bookmarks.video_id ON DELETE CASCADE
BookmarksCascade(rows, delVideos) ==
  {b \in rows : b.video_id \in delVideos}

\* activity_log rows go with the rows their entity_id names
ActivityCascadeByEntity(rows, deleted) == {a \in rows : a.entity_id \in deleted}

\* activity_log declares no foreign key: no delete reaches its rows
ActivityCascade(rows, deleted) == {}

\* DELETE of the given courses, modules and videos with everything the
\* cascades remove
DeleteRows(dc, dm, dv, op, id) ==
  LET delM == dm \cup Ids(ModulesCascade(modules, dc))
      delV == dv \cup Ids(VideosCascade(videos, dc, delM))
      gone == Cardinality({m \in modules : m.id \in delM})
              + Cardinality({v \in videos : v.id \in delV})
              + Cardinality(ProgressCascade(video_progress, delV))
              + Cardinality(NotesCascade(user_notes, dc, delM, delV))
              + Cardinality(BookmarksCascade(video_bookmarks, delV))
  IN  /\ courses' = courses \ dc
      /\ modules' = {m \in modules : m.id \notin delM}
      /\ videos' = {v \in videos : v.id \notin delV}
      /\ video_progress' = video_progress \ ProgressCascade(video_progress, delV)
      /\ user_notes' = user_notes \ NotesCascade(user_notes, dc, delM, delV)
      /\ video_bookmarks' = video_bookmarks \ BookmarksCascade(video_bookmarks, delV)
      /\ activity_log' = activity_log \
           ActivityCascade(activity_log,
             dc \cup delM \cup delV
                \cup Ids(ProgressCascade(video_progress, delV))
                \cup Ids(NotesCascade(user_notes, dc, delM, delV))
                \cup Ids(BookmarksCascade(video_bookmarks, delV)))
      /\ lastSql' = [op |-> op, id |-> id, cascaded |-> gone]
      /\ RelFrame

DeleteCourse(c) ==
  /\ c \in courses
  /\ DeleteRows({c}, {}, {}, "delete_course", c)

DeleteModule(m) ==
  /\ m \in Ids(modules)
  /\ DeleteRows({}, {m}, {}, "delete_module", m)

DeleteVideo(v) ==
  /\ v \in Ids(videos)
  /\ DeleteRows({}, {}, {v}, "delete_video", v)

Inserted(id) == [op |-> "insert", id |-> id, cascaded |-> 0]

InsertCourse(c) ==
  /\ c \notin courses
  /\ courses' = courses \cup {c}
  /\ lastSql' = Inserted(c)
  /\ UNCHANGED <<modules, videos, video_progress, user_notes, video_bookmarks>>
  /\ UNCHANGED activity_log
  /\ RelFrame

InsertModule(m, c) ==
  /\ m \notin Ids(modules)
  /\ c \in courses
  /\ modules' = modules \cup {[id |-> m, course_id |-> c]}
  /\ lastSql' = Inserted(m)
  /\ UNCHANGED <<courses, videos, video_progress, user_notes, video_bookmarks>>
  /\ UNCHANGED activity_log
  /\ RelFrame

InsertVideo(v, m, c) ==
  /\ v \notin Ids(videos)
  /\ m \in Ids(modules)
  /\ c \in courses
  /\ videos' = videos \cup {[id |-> v, module_id |-> m, course_id |-> c]}
  /\ lastSql' = Inserted(v)
  /\ UNCHANGED <<courses, modules, video_progress, user_notes, video_bookmarks>>
  /\ UNCHANGED activity_log
  /\ RelFrame

InsertProgress(p, v) ==
  /\ p \notin Ids(video_progress)
  /\ v \in Ids(videos)
  /\ video_progress' = video_progress \cup {[id |-> p, video_id |-> v]}
  /\ lastSql' = Inserted(p)
  /\ UNCHANGED <<courses, modules, videos, user_notes, video_bookmarks>>
  /\ UNCHANGED activity_log
  /\ RelFrame

\* the three references of a note are nullable
InsertNote(n, v, c, m) ==
  /\ n \notin Ids(user_notes)
  /\ v \in Ids(videos) \cup {NULL}
  /\ c \in courses \cup {NULL}
  /\ m \in Ids(modules) \cup {NULL}
  /\ user_notes' = user_notes \cup
       {[id |-> n, video_id |-> v, course_id |-> c, module_id |-> m]}
  /\ lastSql' = Inserted(n)
  /\ UNCHANGED <<courses, modules, videos, video_progress, video_bookmarks>>
  /\ UNCHANGED activity_log
  /\ RelFrame

InsertBookmark(b, v) ==
  /\ b \notin Ids(video_bookmarks)
  /\ v \in Ids(videos)
  /\ video_bookmarks' = video_bookmarks \cup {[id |-> b, video_id |-> v]}
  /\ lastSql' = Inserted(b)
  /\ UNCHANGED <<courses, modules, videos, video_progress, user_notes>>
  /\ UNCHANGED activity_log
  /\ RelFrame

DbIdle ==
  /\ db = AbsentStore
  /\ now = 1
  /\ lastRun = Report("none", TRUE, "none")

RelInit == RelEmpty /\ DbIdle /\ PlayerIdle /\ SidebarIdle /\ PageIdle /\ BrowserIdle

RelNext ==
  \/ \E c \in CourseIds : InsertCourse(c)
  \/ \E m \in ModuleIds, c \in CourseIds : InsertModule(m, c)
  \/ \E v \in VideoRowIds, m \in ModuleIds, c \in CourseIds : InsertVideo(v, m, c)
  \/ \E p \in ProgressIds, v \in VideoRowIds : InsertProgress(p, v)
  \/ \E n \in NoteIds, v \in VideoRowIds \cup {NULL}, c \in CourseIds \cup {NULL},
        m \in ModuleIds \cup {NULL} : InsertNote(n, v, c, m)
  \/ \E b \in BookmarkIds, v \in VideoRowIds : InsertBookmark(b, v)
  \/ \E c \in CourseIds : DeleteCourse(c)
  \/ \E m \in ModuleIds : DeleteModule(m)
  \/ \E v \in VideoRowIds : DeleteVideo(v)

SpecRel == RelInit /\ [][RelNext]_vars

(***************************************************************************)
(* The activity log (CREATE TABLE activity_log) beside deletes of the       *)
(* entities its rows name                                                   *)
(***************************************************************************)
MaxLogged == 2     \* rows of activity_log

LogIds == {"l1", "l2", "l3"}

\* the entities a log row may name: (entity_type, entity_id)
LoggedEntities ==
  {<<"course", "c1">>, <<"module", "m1">>, <<"video", "v1">>,
   <<"note", "n1">>, <<"bookmark", "b1">>}

\* log_user_activity: INSERT INTO activity_log
LogUserActivity(entity) ==
  /\ Cardinality(activity_log) < MaxLogged
  /\ LET l == CHOOSE f \in LogIds : f \notin Ids(activity_log)
     IN  /\ activity_log' = activity_log \cup
              {[id |-> l, activity_type |-> "custom_action", entity_id |-> entity[2],
                entity_type |-> entity[1], created_at |-> now]}
         /\ lastSql' = Inserted(l)
  /\ UNCHANGED <<courses, modules, videos, video_progress, user_notes, video_bookmarks>>
  /\ RelFrame

\* DELETE FROM user_notes WHERE id = n
DeleteNoteRow(n) ==
  /\ n \in Ids(user_notes)
  /\ user_notes' = {r \in user_notes : r.id # n}
  /\ activity_log' = activity_log \ ActivityCascade(activity_log, {n})
  /\ lastSql' = [op |-> "delete_note", id |-> n, cascaded |-> 0]
  /\ UNCHANGED <<courses, modules, videos, video_progress, video_bookmarks>>
  /\ RelFrame

\* DELETE FROM video_bookmarks WHERE id = b
DeleteBookmarkRow(b) ==
  /\ b \in Ids(video_bookmarks)
  /\ video_bookmarks' = {r \in video_bookmarks : r.id # b}
  /\ activity_log' = activity_log \ ActivityCascade(activity_log, {b})
  /\ lastSql' = [op |-> "delete_bookmark", id |-> b, cascaded |-> 0]
  /\ UNCHANGED <<courses, modules, videos, video_progress, user_notes>>
  /\ RelFrame

\* a store in use: one course with a module, a video and the video's rows
LogInit ==
  /\ DbIdle /\ PlayerIdle /\ SidebarIdle /\ PageIdle /\ BrowserIdle
  /\ courses = {"c1"}
  /\ modules = {[id |-> "m1", course_id |-> "c1"]}
  /\ videos = {[id |-> "v1", module_id |-> "m1", course_id |-> "c1"]}
  /\ video_progress = {[id |-> "p1", video_id |-> "v1"]}
  /\ user_notes = {[id |-> "n1", video_id |-> "v1", course_id |-> "c1",
                    module_id |-> "m1"]}
  /\ video_bookmarks = {[id |-> "b1", video_id |-> "v1"]}
  /\ activity_log = {}
  /\ lastSql = [op |-> "none", id |-> NULL, cascaded |-> 0]

LogNext ==
  \/ \E entity \in LoggedEntities : LogUserActivity(entity)
  \/ \E c \in CourseIds : DeleteCourse(c)
  \/ \E m \in ModuleIds : DeleteModule(m)
  \/ \E v \in VideoRowIds : DeleteVideo(v)
  \/ \E n \in NoteIds : DeleteNoteRow(n)
  \/ \E b \in BookmarkIds : DeleteBookmarkRow(b)

SpecLog == LogInit /\ [][LogNext]_vars

(***************************************************************************)
(* api: videosApi and playerApi                                             *)
(***************************************************************************)
MaxInFlight == 1     \* interval callbacks that may be awaiting at once

\* mockVideoProgress.find(p => p.video_id === videoId): an index, 0 if none
Find(rows, videoId) ==
  LET idx == {i \in 1..Len(rows) : rows[i].video_id = videoId}
  IN  IF idx = {} THEN 0 ELSE CHOOSE i \in idx : \A j \in idx : i <= j

\* the object updateVideoProgress pushes: it has no watch_count (0)
ProgressRow(videoId, currentTime, duration, completed) ==
  [video_id |-> videoId, current_time |-> currentTime, duration |-> duration,
   completed |-> completed, watch_count |-> 0]

\* every call pushes a new row
pushVideoProgress(rows, videoId, currentTime, duration, completed) ==
  Append(rows, ProgressRow(videoId, currentTime, duration, completed))

\* videosApi.updateVideoProgress (id and last_watched, which nothing reads
\* back, are left out of the rows)
updateVideoProgress(rows, videoId, currentTime, duration, completed) ==
  LET i == Find(rows, videoId)
  IN  IF i # 0
      THEN [rows EXCEPT ![i].current_time = currentTime, ![i].duration = duration,
                        ![i].completed = completed]
      ELSE Append(rows, ProgressRow(videoId, currentTime, duration, completed))

\* videosApi.getVideoProgress: the row object itself (kind "row": what is
\* read through it is what the row holds at that moment), or null
getVideoProgress(rows, videoId) ==
  IF Find(rows, videoId) = 0 THEN NoProgress
  ELSE [NoProgress EXCEPT !.kind = "row", !.video_id = videoId]

\* progress?.completed
ProgressCompleted(p, rows) ==
  CASE p.kind = "null" -> FALSE
    [] p.kind = "row" -> rows[Find(rows, p.video_id)].completed
    [] OTHER -> p.completed

\* the threshold has to be passed, reaching it is not enough
AutoCompletedStrict(currentTime, duration) == 100 * currentTime > 95 * duration

\* status.current_time >= status.duration * 0.95
AutoCompleted(currentTime, duration) == 100 * currentTime >= 95 * duration

(***************************************************************************)
(* VideoPlayer                                                              *)
(***************************************************************************)
\* setInterval returns an id no interval that is set has
TimerIds == 1..3

\* what the interval callback reads of the progress it closed over:
\* progress?.completed (and progress?.id, which the rows here leave out)
Captured(p) == [p EXCEPT !.current_time = 0, !.duration = 0]

\* startProgressTracking: the callback closes over video and progress
startProgressTracking(ref, tms, v, p) ==
  LET kept == {t \in tms : t.id # ref}
      free == {i \in TimerIds : \A t \in kept : t.id # i}
      id == CHOOSE i \in free : \A j \in free : i <= j
  IN  [ref |-> id,
       timers |-> kept \cup {[id |-> id, video |-> v, prog |-> Captured(p)]}]

\* the ref is set to null and the interval is left running
stopProgressTrackingRefOnly(ref, tms) == [ref |-> 0, timers |-> tms]

\* stopProgressTracking
stopProgressTracking(ref, tms) ==
  [ref |-> 0, timers |-> {t \in tms : t.id # ref}]

\* setIsPlaying(b) and the effect on [isPlaying]
IsPlayingEffect(b, v, p) ==
  IF b = isPlaying THEN [ref |-> intervalRef, timers |-> timers]
  ELSE IF b THEN startProgressTracking(intervalRef, timers, v, p)
  ELSE stopProgressTracking(intervalRef, timers)

\* the effect on [video]: its cleanup clears the interval and leaves the ref,
\* then loadVideoProgress and resetPlayer run if there is a video
SelectVideo(v) ==
  /\ mounted
  /\ v # video
  /\ video' = v
  /\ LET rest == {t \in timers : t.id # intervalRef}
     IN  IF v = NULL
         THEN /\ timers' = rest
              /\ UNCHANGED <<isPlaying, intervalRef, progress>>
         ELSE /\ isPlaying' = FALSE
              /\ timers' = rest
              /\ intervalRef' = IF isPlaying THEN 0 ELSE intervalRef
              /\ progress' = getVideoProgress(mockVideoProgress, v)
  /\ lastTick' = NoTick
  /\ UNCHANGED <<callbacks, playPending, mockPlayerStatus, mockVideoProgress, autoDone>>
  /\ hook' = NoHook
  /\ UNCHANGED cleared
  /\ UNCHANGED mounted
  /\ PlayerFrame

\* handlePlay, not playing: videoRef.current.play() raises the play event
HandlePlayStart ==
  /\ mounted
  /\ video # NULL /\ ~isPlaying /\ ~playPending
  /\ LET e == IsPlayingEffect(TRUE, video, progress)
     IN  intervalRef' = e.ref /\ timers' = e.timers
  /\ isPlaying' = TRUE
  /\ playPending' = TRUE
  /\ lastTick' = NoTick
  /\ UNCHANGED <<video, progress, callbacks, mockPlayerStatus, mockVideoProgress, autoDone>>
  /\ hook' = NoHook
  /\ UNCHANGED cleared
  /\ UNCHANGED mounted
  /\ PlayerFrame

\* handlePlay, not playing: play() has resolved, playerApi.playVideo(video.path)
HandlePlayCall ==
  /\ playPending
  /\ playPending' = FALSE
  /\ mockPlayerStatus' =
       [is_playing |-> TRUE, current_time |-> 0, duration |-> MockDuration]
  /\ lastTick' = NoTick
  /\ UNCHANGED <<video, isPlaying, progress, intervalRef, timers, callbacks,
                 mockVideoProgress, autoDone>>
  /\ hook' = NoHook
  /\ UNCHANGED cleared
  /\ UNCHANGED mounted
  /\ PlayerFrame

\* handlePlay, playing: pause event and playerApi.pauseVideo
HandlePause ==
  /\ mounted
  /\ video # NULL /\ isPlaying /\ ~playPending
  /\ LET e == IsPlayingEffect(FALSE, video, progress)
     IN  intervalRef' = e.ref /\ timers' = e.timers
  /\ isPlaying' = FALSE
  /\ mockPlayerStatus' = [mockPlayerStatus EXCEPT !.is_playing = FALSE]
  /\ lastTick' = NoTick
  /\ UNCHANGED <<video, progress, callbacks, playPending, mockVideoProgress, autoDone>>
  /\ hook' = NoHook
  /\ UNCHANGED cleared
  /\ UNCHANGED mounted
  /\ PlayerFrame

\* handleSeek -> playerApi.seekVideo
HandleSeek(time) ==
  /\ mounted
  /\ video # NULL
  /\ mockPlayerStatus.current_time # time
  /\ mockPlayerStatus' = [mockPlayerStatus EXCEPT !.current_time = time]
  /\ lastTick' = NoTick
  /\ UNCHANGED <<video, isPlaying, progress, intervalRef, timers, callbacks,
                 playPending, mockVideoProgress, autoDone>>
  /\ hook' = NoHook
  /\ UNCHANGED cleared
  /\ UNCHANGED mounted
  /\ PlayerFrame

\* handleStop -> playerApi.stopVideo
HandleStop ==
  /\ mounted
  /\ video # NULL /\ ~playPending
  /\ LET e == IsPlayingEffect(FALSE, video, progress)
     IN  intervalRef' = e.ref /\ timers' = e.timers
  /\ isPlaying' = FALSE
  /\ mockPlayerStatus' =
       [mockPlayerStatus EXCEPT !.is_playing = FALSE, !.current_time = 0]
  /\ lastTick' = NoTick
  /\ UNCHANGED <<video, progress, callbacks, playPending, mockVideoProgress, autoDone>>
  /\ hook' = NoHook
  /\ UNCHANGED cleared
  /\ UNCHANGED mounted
  /\ PlayerFrame

\* the interval elapses: its callback starts and awaits getVideoStatus
TimerFire(t) ==
  /\ t \in timers
  /\ Len(callbacks) < MaxInFlight
  /\ callbacks' = Append(callbacks,
       [pc |-> "status", video |-> t.video, prog |-> t.prog,
        current_time |-> 0, duration |-> 0, completed |-> FALSE, was |-> FALSE])
  /\ UNCHANGED <<video, isPlaying, progress, intervalRef, timers, playPending,
                 mockPlayerStatus, mockVideoProgress, lastTick, autoDone>>
  /\ hook' = NoHook
  /\ UNCHANGED cleared
  /\ UNCHANGED mounted
  /\ PlayerFrame

Without(seq, i) == [j \in 1..(Len(seq) - 1) |-> IF j < i THEN seq[j] ELSE seq[j + 1]]

\* the stored flag of a video's row, false if it has none
RowCompleted(rows, videoId) ==
  Find(rows, videoId) # 0 /\ rows[Find(rows, videoId)].completed

\* completed is true once the callback's own progress says so
TickCompletedOrCaptured(prog, rows, currentTime, duration) ==
  AutoCompleted(currentTime, duration) \/ ProgressCompleted(prog, rows)

\* what the interval callback stores as completed (prog is the progress the
\* callback closed over)
TickCompleted(prog, rows, currentTime, duration) ==
  AutoCompleted(currentTime, duration)

\* the callback's await of getVideoStatus rejects: the catch logs the error
StatusFails(i) ==
  /\ i \in 1..Len(callbacks)
  /\ callbacks[i].pc = "status"
  /\ callbacks' = Without(callbacks, i)
  /\ UNCHANGED <<video, isPlaying, progress, intervalRef, timers, playPending,
                 mockPlayerStatus, mockVideoProgress, lastTick, autoDone>>
  /\ hook' = NoHook
  /\ UNCHANGED cleared
  /\ UNCHANGED mounted
  /\ PlayerFrame

\* the setters of the status just read (no-ops once the component is
\* unmounted): setIsPlaying(status.is_playing) and the effect on [isPlaying]
StatusSetters(status) ==
  IF mounted
  THEN LET e == IsPlayingEffect(status.is_playing, video, progress)
       IN  [isPlaying |-> status.is_playing, ref |-> e.ref, timers |-> e.timers]
  ELSE [isPlaying |-> isPlaying, ref |-> intervalRef, timers |-> timers]

\* the callback after getVideoStatus, the setters done: the await of
\* updateVideoProgress rejects and the catch logs the error
WriteFails(i) ==
  /\ i \in 1..Len(callbacks)
  /\ callbacks[i].pc = "status"
  /\ callbacks[i].video # NULL
  /\ LET e == StatusSetters(mockPlayerStatus)
     IN  isPlaying' = e.isPlaying /\ intervalRef' = e.ref /\ timers' = e.timers
  /\ callbacks' = Without(callbacks, i)
  /\ UNCHANGED <<video, progress, playPending, mockPlayerStatus, mockVideoProgress,
                 lastTick, autoDone>>
  /\ hook' = NoHook
  /\ UNCHANGED cleared
  /\ UNCHANGED mounted
  /\ PlayerFrame

\* the callback after getVideoStatus: the setters, then the progress write
StatusArrives(i) ==
  /\ i \in 1..Len(callbacks)
  /\ callbacks[i].pc = "status"
  /\ LET cb == callbacks[i]
         status == mockPlayerStatus
         completed == TickCompleted(cb.prog, mockVideoProgress,
                                    status.current_time, status.duration)
         e == StatusSetters(status)
     IN  /\ isPlaying' = e.isPlaying
         /\ intervalRef' = e.ref
         /\ timers' = e.timers
         /\ IF cb.video # NULL
            THEN /\ mockVideoProgress' =
                      updateVideoProgress(mockVideoProgress, cb.video,
                                          status.current_time, status.duration, completed)
                 /\ callbacks' = [callbacks EXCEPT ![i] =
                      [cb EXCEPT !.pc = "update",
                                 !.current_time = status.current_time,
                                 !.duration = status.duration,
                                 !.completed = completed,
                                 !.was = RowCompleted(mockVideoProgress, cb.video)]]
                 /\ lastTick' =
                      IF lastTick.video = cb.video
                      THEN [lastTick EXCEPT !.repeats = IF @ < 2 THEN @ + 1 ELSE @]
                      ELSE [video |-> cb.video, repeats |-> 1]
                 /\ autoDone' = IF completed /\ status.duration > 0
                                THEN autoDone \cup {cb.video} ELSE autoDone
                 /\ cleared' = IF AutoCompleted(status.current_time, status.duration)
                               THEN cleared \ {cb.video} ELSE cleared
            ELSE /\ callbacks' = Without(callbacks, i)
                 /\ UNCHANGED <<mockVideoProgress, lastTick, autoDone, cleared>>
  /\ UNCHANGED <<video, progress, playPending, mockPlayerStatus>>
  /\ hook' = NoHook
  /\ UNCHANGED mounted
  /\ PlayerFrame

\* the callback after updateVideoProgress: setProgress(updatedProgress),
\* onProgressUpdate, and onVideoComplete if (completed && !progress?.completed)
UpdateResolves(i) ==
  /\ i \in 1..Len(callbacks)
  /\ callbacks[i].pc = "update"
  /\ LET cb == callbacks[i]
     IN  progress' = IF mounted
                     THEN [kind |-> "copy", video_id |-> cb.video,
                           current_time |-> cb.current_time, duration |-> cb.duration,
                           completed |-> cb.completed]
                     ELSE progress
  /\ callbacks' = Without(callbacks, i)
  /\ LET cb == callbacks[i]
     IN  hook' = [by |-> "tick", video |-> cb.video,
                  called |-> cb.completed /\ ~ProgressCompleted(cb.prog, mockVideoProgress),
                  was |-> cb.was, completed |-> cb.completed]
  /\ UNCHANGED <<video, isPlaying, intervalRef, timers, playPending,
                 mockPlayerStatus, mockVideoProgress, lastTick, autoDone>>
  /\ UNCHANGED cleared
  /\ UNCHANGED mounted
  /\ PlayerFrame

\* onEnded: setIsPlaying(false), then onVideoComplete(video)
HandleEnded ==
  /\ mounted
  /\ video # NULL /\ isPlaying /\ ~playPending
  /\ LET e == IsPlayingEffect(FALSE, video, progress)
     IN  intervalRef' = e.ref /\ timers' = e.timers
  /\ isPlaying' = FALSE
  /\ hook' = [by |-> "ended", video |-> video, called |-> TRUE,
              was |-> video \in autoDone /\ RowCompleted(mockVideoProgress, video),
              completed |-> RowCompleted(mockVideoProgress, video)]
  /\ lastTick' = NoTick
  /\ UNCHANGED <<video, progress, callbacks, playPending, mockPlayerStatus,
                 mockVideoProgress, autoDone>>
  /\ UNCHANGED cleared
  /\ UNCHANGED mounted
  /\ PlayerFrame

\* handleMarkComplete: markVideoIncomplete / markVideoCompleted on the row,
\* then the progress is loaded again
HandleMarkComplete ==
  /\ mounted
  /\ video # NULL
  /\ Find(mockVideoProgress, video) # 0
  /\ LET was == ProgressCompleted(progress, mockVideoProgress)
         i == Find(mockVideoProgress, video)
     IN  /\ mockVideoProgress' = [mockVideoProgress EXCEPT ![i].completed = ~was]
         /\ autoDone' = IF was THEN autoDone \ {video} ELSE autoDone
         /\ cleared' = IF was THEN cleared \cup {video} ELSE cleared \ {video}
  /\ progress' = getVideoProgress(mockVideoProgress, video)
  /\ lastTick' = NoTick
  /\ UNCHANGED <<video, isPlaying, intervalRef, timers, callbacks, playPending,
                 mockPlayerStatus>>
  /\ hook' = NoHook
  /\ UNCHANGED mounted
  /\ PlayerFrame

\* the component is unmounted: the cleanup of the effect on [video] clears
\* the interval of progressUpdateInterval.current
Unmount ==
  /\ mounted
  /\ mounted' = FALSE
  /\ timers' = {t \in timers : t.id # intervalRef}
  /\ lastTick' = NoTick
  /\ UNCHANGED <<video, isPlaying, progress, intervalRef, callbacks, playPending,
                 mockPlayerStatus, mockVideoProgress, autoDone>>
  /\ hook' = NoHook
  /\ UNCHANGED cleared
  /\ PlayerFrame

PlayerInit == PlayerIdle /\ RelEmpty /\ DbIdle /\ SidebarIdle /\ PageIdle /\ BrowserIdle

PlayerNext ==
  \/ \E v \in VideoIds \cup {NULL} : SelectVideo(v)
  \/ HandlePlayStart
  \/ HandlePlayCall
  \/ HandlePause
  \/ \E t \in SeekTimes : HandleSeek(t)
  \/ HandleStop
  \/ \E t \in timers : TimerFire(t)
  \/ \E i \in 1..MaxInFlight : StatusFails(i)
  \/ \E i \in 1..MaxInFlight : WriteFails(i)
  \/ \E i \in 1..MaxInFlight : StatusArrives(i)
  \/ \E i \in 1..MaxInFlight : UpdateResolves(i)
  \/ HandleMarkComplete
  \/ HandleEnded
  \/ Unmount

SpecPlayer == PlayerInit /\ [][PlayerNext]_vars

(***************************************************************************)
(* Text: a string is a sequence of characters                              *)
(***************************************************************************)
RECURSIVE TrimStart(_)
TrimStart(s) == IF s # << >> /\ Head(s) = " " THEN TrimStart(Tail(s)) ELSE s

RECURSIVE TrimEnd(_)
TrimEnd(s) ==
  IF s # << >> /\ s[Len(s)] = " " THEN TrimEnd(SubSeq(s, 1, Len(s) - 1)) ELSE s

\* String.prototype.trim
trim(s) == TrimEnd(TrimStart(s))

LowerChar(c) == CASE c = "A" -> "a" [] c = "B" -> "b" [] OTHER -> c

\* String.prototype.toLowerCase
toLowerCase(s) == [i \in 1..Len(s) |-> LowerChar(s[i])]

\* String.prototype.includes
includes(s, t) ==
  \E i \in 0..(Len(s) - Len(t)) : SubSeq(s, i + 1, i + Len(t)) = t

\* -1, 0 or 1 as the first sequence of numbers comes before, with or after
\* the second
RECURSIVE LexCompare(_, _)
LexCompare(x, y) ==
  CASE x = << >> /\ y = << >> -> 0
    [] x = << >> -> -1
    [] y = << >> -> 1
    [] Head(x) < Head(y) -> -1
    [] Head(x) > Head(y) -> 1
    [] OTHER -> LexCompare(Tail(x), Tail(y))

\* the letter of a character (space sorts first), and its case
LetterWeight(c) ==
  CASE c = " " -> 0 [] c \in {"a", "A"} -> 1 [] c \in {"b", "B"} -> 2

CaseWeight(c) == IF c \in {"A", "B"} THEN 1 ELSE 0

\* String.prototype.localeCompare: letters decide, then lower case comes
\* before upper case
localeCompare(a, b) ==
  LET letters == LexCompare([i \in 1..Len(a) |-> LetterWeight(a[i])],
                            [i \in 1..Len(b) |-> LetterWeight(b[i])])
  IN  IF letters # 0 THEN letters
      ELSE LexCompare([i \in 1..Len(a) |-> CaseWeight(a[i])],
                      [i \in 1..Len(b) |-> CaseWeight(b[i])])

(***************************************************************************)
(* NotesSidebar: the list of notes                                          *)
(***************************************************************************)
MaxListed == 3     \* notes in a loaded list

\* notes as getNotesByVideo returns them; timestamp is << >> when the note
\* has none, created_at is <<day, hour>>
SampleNotes ==
  { [id |-> "n1", timestamp |-> <<100>>, title |-> <<"b">>, content |-> << >>,
     note_type |-> "general", created_at |-> <<1, 2>>],
    [id |-> "n2", timestamp |-> << >>, title |-> <<"A", "b">>, content |-> <<"b">>,
     note_type |-> "important", created_at |-> <<1, 1>>],
    [id |-> "n3", timestamp |-> <<50>>, title |-> <<"a">>, content |-> <<"B">>,
     note_type |-> "general", created_at |-> <<2, 0>>] }

\* the lists of different notes a load may return, in any order
NoteLists ==
  UNION {{l \in [1..n -> SampleNotes] : \A i, j \in 1..n : l[i] = l[j] => i = j}
         : n \in 0..MaxListed}

SearchTerms == {<< >>, <<"a">>, <<"B">>}

NoteTypeFilters == {"all", "general", "important"}

SortKeys == {"timestamp", "created", "title"}

\* a.timestamp || 0
TimestampOrZero(n) == IF n.timestamp = << >> THEN 0 ELSE n.timestamp[1]

\* new Date(created_at).getTime(), in hours
getTime(createdAt) == createdAt[1] * 24 + createdAt[2]

\* the direction is not looked at
ComparisonAscending(a, b, by, order) ==
  CASE by = "timestamp" -> TimestampOrZero(a) - TimestampOrZero(b)
    [] by = "created" -> getTime(a.created_at) - getTime(b.created_at)
    [] by = "title" -> localeCompare(a.title, b.title)

\* the compare function handed to sort
Comparison(a, b, by, order) ==
  LET comparison ==
        CASE by = "timestamp" -> TimestampOrZero(a) - TimestampOrZero(b)
          [] by = "created" -> getTime(a.created_at) - getTime(b.created_at)
          [] by = "title" -> localeCompare(a.title, b.title)
  IN  IF order = "asc" THEN comparison ELSE 0 - comparison

\* one note put into a sorted list, behind the notes it does not come before
InsertSorted(sorted, n, by, order) ==
  LET after == {i \in 1..Len(sorted) : Comparison(sorted[i], n, by, order) > 0}
      k == IF after = {} THEN Len(sorted) + 1
           ELSE CHOOSE i \in after : \A j \in after : i <= j
  IN  SubSeq(sorted, 1, k - 1) \o <<n>> \o SubSeq(sorted, k, Len(sorted))

\* Array.prototype.sort (stable)
RECURSIVE SortInto(_, _, _, _)
SortInto(sorted, rest, by, order) ==
  IF rest = << >> THEN sorted
  ELSE SortInto(InsertSorted(sorted, Head(rest), by, order), Tail(rest), by, order)

\* the predicate of notes.filter
MatchesFilter(n, term, type) ==
  /\ \/ includes(toLowerCase(n.title), toLowerCase(term))
     \/ includes(toLowerCase(n.content), toLowerCase(term))
  /\ type = "all" \/ n.note_type = type

\* filterAndSortNotes
filterAndSortNotes(list, term, type, by, order) ==
  SortInto(<< >>, SelectSeq(list, LAMBDA n : MatchesFilter(n, term, type)), by, order)

\* the effect on [notes, searchTerm, selectedNoteType, sortBy, sortOrder]
FilterEffect ==
  filteredNotes' = filterAndSortNotes(notes', searchTerm', selectedNoteType',
                                      sortBy', sortOrder')

ListFrame ==
  UNCHANGED <<dbVars, relVars, playerVars, pageVars, browserVars, bookmarks, isCreatingNote,
              isCreatingBookmark, newNote, newBookmark, editingNote, loading, lastCall>>

\* loadNotes: setNotes(videoNotes)
LoadNotes(list) ==
  /\ list # notes
  /\ notes' = list
  /\ UNCHANGED <<searchTerm, selectedNoteType, sortBy, sortOrder>>
  /\ FilterEffect
  /\ ListFrame

\* the search input's onChange
SetSearchTerm(term) ==
  /\ term # searchTerm
  /\ searchTerm' = term
  /\ UNCHANGED <<notes, selectedNoteType, sortBy, sortOrder>>
  /\ FilterEffect
  /\ ListFrame

\* the type filter's onChange
SetSelectedNoteType(type) ==
  /\ type # selectedNoteType
  /\ selectedNoteType' = type
  /\ UNCHANGED <<notes, searchTerm, sortBy, sortOrder>>
  /\ FilterEffect
  /\ ListFrame

\* the sort select's onChange
SetSortBy(by) ==
  /\ by # sortBy
  /\ sortBy' = by
  /\ UNCHANGED <<notes, searchTerm, selectedNoteType, sortOrder>>
  /\ FilterEffect
  /\ ListFrame

\* the sort order button
ToggleSortOrder ==
  /\ sortOrder' = IF sortOrder = "asc" THEN "desc" ELSE "asc"
  /\ UNCHANGED <<notes, searchTerm, selectedNoteType, sortBy>>
  /\ FilterEffect
  /\ ListFrame

ListInit == DbIdle /\ RelEmpty /\ PlayerIdle /\ SidebarIdle /\ PageIdle /\ BrowserIdle

ListNext ==
  \/ \E list \in NoteLists : LoadNotes(list)
  \/ \E term \in SearchTerms : SetSearchTerm(term)
  \/ \E type \in NoteTypeFilters : SetSelectedNoteType(type)
  \/ \E by \in SortKeys : SetSortBy(by)
  \/ ToggleSortOrder

SpecList == ListInit /\ [][ListNext]_vars

(***************************************************************************)
(* The store's notes and bookmarks (create, delete, list)                   *)
(***************************************************************************)
MaxStoredNotes == 2       \* note rows the store may hold

MaxStoredBookmarks == 1   \* bookmark rows the store may hold

StoredNoteIds == {"n1", "n2"}

StoredBookmarkIds == {"b1"}

\* the course, module and video the notes are about (mockVideos[0])
SidebarCourses == {"1"}

SidebarModules == {[id |-> "1", course_id |-> "1"]}

SidebarVideos ==
  {[id |-> "1", module_id |-> "1", course_id |-> "1", duration |-> 1200]}

\* any timestamp is taken
AnyTimestamp(vids, videoId, timestamp) == TRUE

\* timestamp within [0, video.duration] when video_id is set
TimestampInRange(vids, videoId, timestamp) ==
  videoId = NULL \/
    \A v \in vids : v.id = videoId => 0 <= timestamp /\ timestamp <= v.duration

\* Create, note: what the store answers
CreateNoteResult(data) ==
  IF \/ trim(data.title) = << >> \/ trim(data.content) = << >>
     \/ ~TimestampInRange(videos, data.video_id, data.timestamp)
  THEN "ValidationError"
  ELSE IF \/ data.video_id \notin Ids(videos) \cup {NULL}
          \/ data.course_id \notin courses \cup {NULL}
          \/ data.module_id \notin Ids(modules) \cup {NULL}
       THEN "NotFoundError"
       ELSE "ok"

\* Create, bookmark: what the store answers
CreateBookmarkResult(videoId, timestamp, title) ==
  IF trim(title) = << >> \/ ~TimestampInRange(videos, videoId, timestamp)
  THEN "ValidationError"
  ELSE IF videoId \notin Ids(videos) THEN "NotFoundError" ELSE "ok"

\* the row Create inserts for a note
NoteRow(id, data) ==
  [id |-> id, video_id |-> data.video_id, course_id |-> data.course_id,
   module_id |-> data.module_id, timestamp |-> <<data.timestamp>>,
   title |-> data.title, content |-> data.content, note_type |-> data.note_type,
   created_at |-> <<now, 0>>, updated_at |-> <<now, 0>>]

\* the row Create inserts for a bookmark
BookmarkRow(id, videoId, timestamp, title, description) ==
  [id |-> id, video_id |-> videoId, timestamp |-> <<timestamp>>, title |-> title,
   description |-> description, created_at |-> <<now, 0>>]

\* an id that is missing is an error
DeleteResultNotFound(rows, id) ==
  IF id \in Ids(rows) THEN "ok" ELSE "NotFoundError"

\* Delete: what the store answers
DeleteResult(rows, id) == "ok"

\* Delete: the rows afterwards
DeleteById(rows, id) == {r \in rows : r.id # id}

\* the rows of a set as a list, in the order the store happens to return them
RECURSIVE ListOf(_)
ListOf(rows) ==
  IF rows = {} THEN << >>
  ELSE LET first == CHOOSE r \in rows : TRUE
       IN  <<first>> \o ListOf(rows \ {first})

\* List by video id, timestamp ascending
ListByVideo(rows, videoId) ==
  SortInto(<< >>, ListOf({r \in rows : r.video_id = videoId}), "timestamp", "asc")

(***************************************************************************)
(* NotesSidebar: the forms and the handlers                                 *)
(***************************************************************************)
SidebarVideoId == "1"      \* the videoId prop

SidebarCurrentTime == 0    \* the currentTime prop

FormTexts == {<< >>, <<" ">>, <<"b">>}

FormTimestamps == {0 - 5, 0, 2000}

\* String.prototype.trim left out: only the empty string is blank
IsEmpty(s) == s = << >>

\* !s.trim()
IsBlank(s) == trim(s) = << >>

NotesFrame ==
  UNCHANGED <<dbVars, playerVars, pageVars, browserVars,
              courses, modules, videos, video_progress, lastSql,
              activity_log, searchTerm, selectedNoteType, sortBy, sortOrder,
              editingNote>>

\* the ids the store has not given out to a row that is stored or listed
FreeIds(pool, rows, listed) ==
  {i \in pool : i \notin Ids(rows) /\ \A k \in 1..Len(listed) : listed[k].id # i}

\* the id of a new row
NewId(pool, rows, listed) == CHOOSE i \in FreeIds(pool, rows, listed) : TRUE

\* the "Nova" button
OpenNoteForm ==
  /\ ~isCreatingNote
  /\ isCreatingNote' = TRUE
  /\ UNCHANGED <<notes, bookmarks, isCreatingBookmark, newNote, newBookmark,
                 filteredNotes, loading, lastCall, user_notes, video_bookmarks>>
  /\ NotesFrame

\* the note form's inputs (onChange) and its Cancelar button
EditNewNote(title, content, timestamp) ==
  /\ isCreatingNote
  /\ newNote' = [newNote EXCEPT !.title = title, !.content = content,
                                !.timestamp = timestamp]
  /\ newNote' # newNote
  /\ UNCHANGED <<notes, bookmarks, isCreatingNote, isCreatingBookmark, newBookmark,
                 filteredNotes, loading, lastCall, user_notes, video_bookmarks>>
  /\ NotesFrame

CancelNoteForm ==
  /\ isCreatingNote
  /\ isCreatingNote' = FALSE
  /\ UNCHANGED <<notes, bookmarks, isCreatingBookmark, newNote, newBookmark,
                 filteredNotes, loading, lastCall, user_notes, video_bookmarks>>
  /\ NotesFrame

\* handleCreateNote
HandleCreateNote ==
  /\ isCreatingNote
  /\ IF IsBlank(newNote.title) \/ IsBlank(newNote.content)
     THEN /\ lastCall' = [handler |-> "handleCreateNote", called |-> FALSE,
                          found |-> FALSE, result |-> "alert"]
          /\ UNCHANGED <<user_notes, newNote, isCreatingNote, loading>>
     ELSE LET noteData == [video_id |-> SidebarVideoId, course_id |-> "1", module_id |-> "1",
                           timestamp |-> newNote.timestamp, title |-> newNote.title,
                           content |-> newNote.content, note_type |-> newNote.noteType]
              result == CreateNoteResult(noteData)
          IN  /\ lastCall' = [handler |-> "handleCreateNote", called |-> TRUE,
                              found |-> FALSE, result |-> result]
              /\ IF result = "ok"
                 THEN /\ Cardinality(user_notes) < MaxStoredNotes
                      /\ FreeIds(StoredNoteIds, user_notes, notes) # {}
                      /\ user_notes' = user_notes \cup
                           {NoteRow(NewId(StoredNoteIds, user_notes, notes), noteData)}
                      /\ newNote' = [EmptyNote EXCEPT !.timestamp = SidebarCurrentTime]
                      /\ isCreatingNote' = FALSE
                      /\ loading' = TRUE
                 ELSE UNCHANGED <<user_notes, newNote, isCreatingNote, loading>>
  /\ UNCHANGED <<notes, bookmarks, isCreatingBookmark, newBookmark, filteredNotes,
                 video_bookmarks>>
  /\ NotesFrame

\* handleDeleteNote, ok being the answer to confirm()
HandleDeleteNote(noteId, ok) ==
  /\ \E k \in 1..Len(notes) : notes[k].id = noteId
  /\ IF ok
     THEN /\ user_notes' = DeleteById(user_notes, noteId)
          /\ lastCall' = [handler |-> "handleDeleteNote", called |-> TRUE,
                          found |-> noteId \in Ids(user_notes),
                          result |-> DeleteResult(user_notes, noteId)]
          /\ loading' = (loading \/ DeleteResult(user_notes, noteId) = "ok")
     ELSE /\ lastCall' = [handler |-> "handleDeleteNote", called |-> FALSE,
                          found |-> FALSE, result |-> "none"]
          /\ UNCHANGED <<user_notes, loading>>
  /\ UNCHANGED <<notes, bookmarks, isCreatingNote, isCreatingBookmark, newNote,
                 newBookmark, filteredNotes, video_bookmarks>>
  /\ NotesFrame

\* the "Novo Bookmark" button
OpenBookmarkForm ==
  /\ ~isCreatingBookmark
  /\ isCreatingBookmark' = TRUE
  /\ UNCHANGED <<notes, bookmarks, isCreatingNote, newNote, newBookmark,
                 filteredNotes, loading, lastCall, user_notes, video_bookmarks>>
  /\ NotesFrame

\* the bookmark form's inputs (onChange)
EditNewBookmark(title, timestamp) ==
  /\ isCreatingBookmark
  /\ newBookmark' = [newBookmark EXCEPT !.title = title, !.timestamp = timestamp]
  /\ newBookmark' # newBookmark
  /\ UNCHANGED <<notes, bookmarks, isCreatingNote, isCreatingBookmark, newNote,
                 filteredNotes, loading, lastCall, user_notes, video_bookmarks>>
  /\ NotesFrame

\* handleCreateBookmark
HandleCreateBookmark ==
  /\ isCreatingBookmark
  /\ IF IsBlank(newBookmark.title)
     THEN /\ lastCall' = [handler |-> "handleCreateBookmark", called |-> FALSE,
                          found |-> FALSE, result |-> "alert"]
          /\ UNCHANGED <<video_bookmarks, newBookmark, isCreatingBookmark, loading>>
     ELSE LET result == CreateBookmarkResult(SidebarVideoId, newBookmark.timestamp,
                                             newBookmark.title)
          IN  /\ lastCall' = [handler |-> "handleCreateBookmark", called |-> TRUE,
                              found |-> FALSE, result |-> result]
              /\ IF result = "ok"
                 THEN /\ Cardinality(video_bookmarks) < MaxStoredBookmarks
                      /\ FreeIds(StoredBookmarkIds, video_bookmarks, bookmarks) # {}
                      /\ video_bookmarks' = video_bookmarks \cup
                           {BookmarkRow(NewId(StoredBookmarkIds, video_bookmarks, bookmarks),
                                        SidebarVideoId, newBookmark.timestamp,
                                        newBookmark.title, newBookmark.description)}
                      /\ newBookmark' = [EmptyBookmark EXCEPT !.timestamp = SidebarCurrentTime]
                      /\ isCreatingBookmark' = FALSE
                      /\ loading' = TRUE
                 ELSE UNCHANGED <<video_bookmarks, newBookmark, isCreatingBookmark,
                                  loading>>
  /\ UNCHANGED <<notes, bookmarks, isCreatingNote, newNote, filteredNotes, user_notes>>
  /\ NotesFrame

\* handleDeleteBookmark, ok being the answer to confirm()
HandleDeleteBookmark(bookmarkId, ok) ==
  /\ \E k \in 1..Len(bookmarks) : bookmarks[k].id = bookmarkId
  /\ IF ok
     THEN /\ video_bookmarks' = DeleteById(video_bookmarks, bookmarkId)
          /\ lastCall' = [handler |-> "handleDeleteBookmark", called |-> TRUE,
                          found |-> bookmarkId \in Ids(video_bookmarks),
                          result |-> DeleteResult(video_bookmarks, bookmarkId)]
          /\ loading' = (loading \/ DeleteResult(video_bookmarks, bookmarkId) = "ok")
     ELSE /\ lastCall' = [handler |-> "handleDeleteBookmark", called |-> FALSE,
                          found |-> FALSE, result |-> "none"]
          /\ UNCHANGED <<video_bookmarks, loading>>
  /\ UNCHANGED <<notes, bookmarks, isCreatingNote, isCreatingBookmark, newNote,
                 newBookmark, filteredNotes, user_notes>>
  /\ NotesFrame

\* loadNotes / loadBookmarks resolve: setNotes, setBookmarks
LoadResolves ==
  /\ loading
  /\ loading' = FALSE
  /\ notes' = ListByVideo(user_notes, SidebarVideoId)
  /\ bookmarks' = ListByVideo(video_bookmarks, SidebarVideoId)
  /\ filteredNotes' = filterAndSortNotes(notes', searchTerm, selectedNoteType,
                                         sortBy, sortOrder)
  /\ UNCHANGED <<isCreatingNote, isCreatingBookmark, newNote, newBookmark, lastCall,
                 user_notes, video_bookmarks>>
  /\ NotesFrame

NotesInit ==
  /\ DbIdle /\ PlayerIdle /\ SidebarIdle /\ PageIdle /\ BrowserIdle
  /\ courses = SidebarCourses /\ modules = SidebarModules /\ videos = SidebarVideos
  /\ video_progress = {} /\ user_notes = {} /\ video_bookmarks = {}
  /\ activity_log = {}
  /\ lastSql = [op |-> "none", id |-> NULL, cascaded |-> 0]

NotesNext ==
  \/ OpenNoteForm
  \/ \E t \in FormTexts, c \in FormTexts \ {<<" ">>}, ts \in FormTimestamps :
       EditNewNote(t, c, ts)
  \/ CancelNoteForm
  \/ HandleCreateNote
  \/ \E id \in StoredNoteIds, ok \in BOOLEAN : HandleDeleteNote(id, ok)
  \/ OpenBookmarkForm
  \/ \E t \in FormTexts \ {<<" ">>}, ts \in FormTimestamps \ {0 - 5} :
       EditNewBookmark(t, ts)
  \/ HandleCreateBookmark
  \/ \E id \in StoredBookmarkIds, ok \in BOOLEAN : HandleDeleteBookmark(id, ok)
  \/ LoadResolves

SpecNotes == NotesInit /\ [][NotesNext]_vars

(***************************************************************************)
(* NotesSidebar: editing a note                                             *)
(***************************************************************************)
\* the notes of video '1' in the store when the sidebar opens
StoredNotes ==
  {[id |-> "n1", video_id |-> "1", course_id |-> "1", module_id |-> "1",
    timestamp |-> <<0>>, title |-> <<"b">>, content |-> <<"b">>,
    note_type |-> "general", created_at |-> <<0, 0>>, updated_at |-> <<0, 0>>],
   [id |-> "n2", video_id |-> "1", course_id |-> "1", module_id |-> "1",
    timestamp |-> <<100>>, title |-> <<"a">>, content |-> <<"b">>,
    note_type |-> "important", created_at |-> <<0, 1>>, updated_at |-> <<0, 1>>]}

EditTexts == {<< >>, <<"c">>}

\* Update, note: what the store answers
UpdateNoteResult(rows, id) == IF id \in Ids(rows) THEN "ok" ELSE "NotFoundError"

\* the row is written anew, created_at included
UpdatedNoteRestamped(r, title, content) ==
  [r EXCEPT !.title = title, !.content = content, !.updated_at = <<now, 0>>,
            !.created_at = <<now, 0>>]

\* Update, note: title and content replaced, updated_at refreshed
UpdatedNote(r, title, content) ==
  [r EXCEPT !.title = title, !.content = content, !.updated_at = <<now, 0>>]

\* Update, note: the rows afterwards
UpdateNoteRows(rows, id, title, content) ==
  {IF r.id = id THEN UpdatedNote(r, title, content) ELSE r : r \in rows}

EditFrame ==
  UNCHANGED <<dbVars, playerVars, pageVars, browserVars,
              courses, modules, videos, video_progress, lastSql,
              activity_log, video_bookmarks, searchTerm, selectedNoteType, sortBy, sortOrder,
              notes, bookmarks, isCreatingNote, isCreatingBookmark, newNote,
              newBookmark, filteredNotes>>

\* the effect on [videoId, isOpen]: loadNotes(), loadBookmarks()
OpenSidebar ==
  /\ lastCall = NoCall /\ notes = << >> /\ ~loading
  /\ loading' = TRUE
  /\ lastCall' = [NoCall EXCEPT !.handler = "useEffect"]
  /\ UNCHANGED <<user_notes, editingNote>>
  /\ EditFrame

\* the edit button of a listed note: setEditingNote(note)
StartEditing(k) ==
  /\ k \in 1..Len(notes)
  /\ editingNote = << >>
  /\ editingNote' = <<notes[k]>>
  /\ UNCHANGED <<user_notes, loading, lastCall>>
  /\ EditFrame

\* the edit form's inputs (onChange)
ChangeEditingNote(title, content) ==
  /\ editingNote # << >>
  /\ editingNote' = <<[editingNote[1] EXCEPT !.title = title, !.content = content]>>
  /\ editingNote' # editingNote
  /\ UNCHANGED <<user_notes, loading, lastCall>>
  /\ EditFrame

\* the edit form's Cancelar button: setEditingNote(null)
CancelEditing ==
  /\ editingNote # << >>
  /\ editingNote' = << >>
  /\ UNCHANGED <<user_notes, loading, lastCall>>
  /\ EditFrame

\* handleUpdateNote
HandleUpdateNote ==
  /\ editingNote # << >>
  /\ IF IsBlank(editingNote[1].title) \/ IsBlank(editingNote[1].content)
     THEN /\ lastCall' = [handler |-> "handleUpdateNote", called |-> FALSE,
                          found |-> FALSE, result |-> "alert"]
          /\ UNCHANGED <<user_notes, editingNote, loading>>
     ELSE LET id == editingNote[1].id
              result == UpdateNoteResult(user_notes, id)
          IN  /\ lastCall' = [handler |-> "handleUpdateNote", called |-> TRUE,
                              found |-> id \in Ids(user_notes), result |-> result]
              /\ IF result = "ok"
                 THEN /\ user_notes' = UpdateNoteRows(user_notes, id, editingNote[1].title,
                                                      editingNote[1].content)
                      /\ editingNote' = << >>
                      /\ loading' = TRUE
                 ELSE UNCHANGED <<user_notes, editingNote, loading>>
  /\ EditFrame

EditInit ==
  /\ DbIdle /\ PlayerIdle /\ SidebarIdle /\ PageIdle /\ BrowserIdle
  /\ courses = SidebarCourses /\ modules = SidebarModules /\ videos = SidebarVideos
  /\ video_progress = {} /\ user_notes = StoredNotes /\ video_bookmarks = {}
  /\ activity_log = {}
  /\ lastSql = [op |-> "none", id |-> NULL, cascaded |-> 0]

EditNext ==
  \/ OpenSidebar
  \/ \E k \in 1..MaxListed : StartEditing(k)
  \/ \E t \in EditTexts, c \in EditTexts \cup {<<"b">>} : ChangeEditingNote(t, c)
  \/ CancelEditing
  \/ HandleUpdateNote
  \/ \E id \in StoredNoteIds, ok \in BOOLEAN : HandleDeleteNote(id, ok)
  \/ LoadResolves
  \/ ClockTick

SpecEdit == EditInit /\ [][EditNext]_vars

(***************************************************************************)
(* The three notes views: NotesSidebar, NotesModal and VideoNotes            *)
(***************************************************************************)
NotesViews == {"NotesSidebar", "NotesModal", "VideoNotes"}

\* a store with videos of two courses
ViewCourses == {"1", "2"}

ViewModules == {[id |-> "1", course_id |-> "1"], [id |-> "2", course_id |-> "2"]}

ViewVideos ==
  {[id |-> "1", module_id |-> "1", course_id |-> "1", duration |-> 1200],
   [id |-> "4", module_id |-> "2", course_id |-> "2", duration |-> 600]}

ViewTexts == {<< >>, <<"b">>}

ViewTimestamps == {0, 100}

\* noteData as the view's handleCreateNote builds it: the sidebar and the
\* modal have the videoId prop only, VideoNotes has the video
ViewNoteData(view, v, title, content, timestamp) ==
  [video_id |-> v.id,
   course_id |-> IF view = "VideoNotes" THEN v.course_id ELSE "1",
   module_id |-> IF view = "VideoNotes" THEN v.module_id ELSE "1",
   timestamp |-> timestamp, title |-> title, content |-> content,
   note_type |-> "general"]

\* handleCreateNote of a view shown for video v, with the form's values
ViewCreateNote(view, v, title, content, timestamp) ==
  /\ IF IsBlank(title) \/ IsBlank(content)
     THEN /\ lastCall' = [handler |-> view, called |-> FALSE, found |-> FALSE,
                          result |-> "rejected"]
          /\ UNCHANGED user_notes
     ELSE LET noteData == ViewNoteData(view, v, title, content, timestamp)
              result == CreateNoteResult(noteData)
          IN  /\ lastCall' = [handler |-> view, called |-> TRUE, found |-> FALSE,
                              result |-> result]
              /\ IF result = "ok"
                 THEN /\ Cardinality(user_notes) < MaxStoredNotes
                      /\ user_notes' = user_notes \cup
                           {NoteRow(NewId(StoredNoteIds, user_notes, notes), noteData)}
                 ELSE UNCHANGED user_notes
  /\ UNCHANGED <<dbVars, playerVars, pageVars, browserVars, courses, modules, videos,
                 video_progress, video_bookmarks, activity_log, lastSql,
                 notes, bookmarks, isCreatingNote, isCreatingBookmark, newNote,
                 newBookmark, searchTerm, selectedNoteType, sortBy, sortOrder,
                 filteredNotes, editingNote, loading>>

ViewsInit ==
  /\ DbIdle /\ PlayerIdle /\ SidebarIdle /\ PageIdle /\ BrowserIdle
  /\ courses = ViewCourses /\ modules = ViewModules /\ videos = ViewVideos
  /\ video_progress = {} /\ user_notes = {} /\ video_bookmarks = {}
  /\ activity_log = {}
  /\ lastSql = [op |-> "none", id |-> NULL, cascaded |-> 0]

ViewsNext ==
  \E view \in NotesViews, v \in videos, title \in ViewTexts, content \in ViewTexts,
     timestamp \in ViewTimestamps :
       ViewCreateNote(view, v, title, content, timestamp)

SpecViews == ViewsInit /\ [][ViewsNext]_vars

(***************************************************************************)
(* FolderBrowserPage: the playlist, with the VideoPlayer it renders          *)
(***************************************************************************)
MaxLate == 1       \* interval callbacks of the page's player under way at once

\* the lists of files FolderBrowser hands to onPlayPlaylist
PlaylistChoices == {<< >>, <<"a", "b">>, <<"a", "b", "c">>}

\* the files FolderBrowser hands to onPlayFile
FileChoices == {"a", "x"}

PageFrame == UNCHANGED <<dbVars, relVars, playerVars, sidebarVars, browserVars>>

\* handlePlayFile; the new video prop clears the player's interval
HandlePlayFile(filePath) ==
  /\ currentVideo' = filePath
  /\ playlist' = <<filePath>>
  /\ currentIndex' = 0
  /\ tracking' = FALSE
  /\ UNCHANGED inflight
  /\ PageFrame

\* handlePlayPlaylist
HandlePlayPlaylist(files) ==
  /\ IF Len(files) = 0
     THEN UNCHANGED <<currentVideo, playlist, currentIndex, tracking>>
     ELSE /\ currentVideo' = files[1]
          /\ playlist' = files
          /\ currentIndex' = 0
          /\ tracking' = FALSE
  /\ UNCHANGED inflight
  /\ PageFrame

\* handleVideoComplete as a render of the page defines it: index and list are
\* the currentIndex and playlist of that render
handleVideoComplete(index, list) ==
  IF index < Len(list) - 1
  THEN /\ currentVideo' = list[index + 2]
       /\ currentIndex' = index + 1
       /\ tracking' = FALSE
  ELSE UNCHANGED <<currentVideo, currentIndex, tracking>>

\* goToPrevious (the button is there for a playlist of more than one file)
GoToPrevious ==
  /\ Len(playlist) > 1
  /\ currentIndex > 0
  /\ currentVideo' = playlist[currentIndex]
  /\ currentIndex' = currentIndex - 1
  /\ tracking' = FALSE
  /\ UNCHANGED <<playlist, inflight>>
  /\ PageFrame

\* goToNext
GoToNext ==
  /\ Len(playlist) > 1
  /\ currentIndex < Len(playlist) - 1
  /\ currentVideo' = playlist[currentIndex + 2]
  /\ currentIndex' = currentIndex + 1
  /\ tracking' = FALSE
  /\ UNCHANGED <<playlist, inflight>>
  /\ PageFrame

\* the player starts playing: the effect on [isPlaying] sets the interval,
\* whose callback closes over the onVideoComplete of this render
PlayerPlays ==
  /\ currentVideo # NULL /\ ~tracking
  /\ tracking' = TRUE
  /\ UNCHANGED <<currentVideo, playlist, currentIndex, inflight>>
  /\ PageFrame

\* the player pauses: the interval is cleared
PlayerPauses ==
  /\ tracking
  /\ tracking' = FALSE
  /\ UNCHANGED <<currentVideo, playlist, currentIndex, inflight>>
  /\ PageFrame

\* the interval elapses: a callback starts and awaits the status
PlayerTick ==
  /\ tracking
  /\ Cardinality(inflight) < MaxLate
  /\ inflight' = inflight \cup {[index |-> currentIndex, list |-> playlist]}
  /\ UNCHANGED <<currentVideo, playlist, currentIndex, tracking>>
  /\ PageFrame

\* a callback goes on after its awaits; completes says whether it finds
\* completed && !progress?.completed and calls onVideoComplete
PlayerTickResolves(cb, completes) ==
  /\ cb \in inflight
  /\ inflight' = inflight \ {cb}
  /\ IF completes THEN handleVideoComplete(cb.index, cb.list)
     ELSE UNCHANGED <<currentVideo, currentIndex, tracking>>
  /\ UNCHANGED playlist
  /\ PageFrame

\* onEnded: setIsPlaying(false), then the onVideoComplete of the last render
PlayerEnded ==
  /\ tracking
  /\ IF currentIndex < Len(playlist) - 1
     THEN handleVideoComplete(currentIndex, playlist)
     ELSE /\ tracking' = FALSE
          /\ UNCHANGED <<currentVideo, currentIndex>>
  /\ UNCHANGED <<playlist, inflight>>
  /\ PageFrame

PageInit == DbIdle /\ RelEmpty /\ PlayerIdle /\ SidebarIdle /\ PageIdle /\ BrowserIdle

PageNext ==
  \/ \E f \in FileChoices : HandlePlayFile(f)
  \/ \E files \in PlaylistChoices : HandlePlayPlaylist(files)
  \/ GoToPrevious
  \/ GoToNext
  \/ PlayerPlays
  \/ PlayerPauses
  \/ PlayerTick
  \/ \E cb \in inflight, completes \in BOOLEAN : PlayerTickResolves(cb, completes)
  \/ PlayerEnded

SpecPage == PageInit /\ [][PageNext]_vars

(***************************************************************************)
(* FolderBrowser: the navigation history and the file selection              *)
(* A path is the sequence of its segments between backslashes; the empty     *)
(* string (and null) is the empty sequence.                                  *)
(***************************************************************************)
MaxHistory == 3    \* entries of pathHistory
MaxDepth == 3      \* segments of a path opened through the subfolder list

\* what the folder dialog can return besides null
DialogPaths == {<<"C:", "a">>, <<"D:">>}

\* names of the subfolders a scan lists
SubfolderNames == {"s"}

\* paths of the media files a scan lists
MediaFiles == {"f1", "f2"}

\* currentPath.split('\\').slice(0, -1).join('\\')
ParentPath(path) ==
  LET parent == SubSeq(path, 1, Len(path) - 1)
  IN  IF parent = <<"">> THEN << >> ELSE parent

\* newHistory[newHistory.length - 1] (undefined for an empty array)
LastPath(history) == IF history = << >> THEN << >> ELSE history[Len(history)]

CanGoBackAny(history) == Len(history) > 0

\* pathHistory.length > 1 (the test of navigateBack and of its button)
CanGoBack(history) == Len(history) > 1

BrowserFrame == UNCHANGED <<dbVars, relVars, playerVars, sidebarVars, pageVars>>

\* loadFolderContent up to its await
StartScan(path, by) ==
  /\ browserLoading' = TRUE
  /\ scan' = [pc |-> "scan", path |-> path, by |-> by]

\* selectFolder up to its await
SelectFolder ==
  /\ ~browserLoading
  /\ browserLoading' = TRUE
  /\ scan' = [pc |-> "dialog", path |-> << >>]
  /\ UNCHANGED <<currentPath, pathHistory, folderContent, selectedFiles>>
  /\ BrowserFrame

\* folderApi.selectFolder() resolves with a path or null
DialogReturns(selectedPath) ==
  /\ scan.pc = "dialog"
  /\ IF selectedPath # << >>
     THEN /\ currentPath' = selectedPath
          /\ pathHistory' = <<selectedPath>>
          /\ StartScan(selectedPath, "selectFolder")
     ELSE /\ browserLoading' = FALSE
          /\ scan' = NoScan
          /\ UNCHANGED <<currentPath, pathHistory>>
  /\ UNCHANGED <<folderContent, selectedFiles>>
  /\ BrowserFrame

\* folderApi.selectFolder() rejects
DialogFails ==
  /\ scan.pc = "dialog"
  /\ browserLoading' = FALSE
  /\ scan' = [pc |-> "failed", path |-> << >>]
  /\ UNCHANGED <<currentPath, pathHistory, folderContent, selectedFiles>>
  /\ BrowserFrame

\* navigateToFolder, from the subfolder list of the content shown
NavigateToFolder(name) ==
  /\ currentPath # << >> /\ folderContent # << >> /\ ~browserLoading
  /\ Len(folderContent[1]) < MaxDepth
  /\ Len(pathHistory) < MaxHistory
  /\ LET folderPath == Append(folderContent[1], name)
     IN  /\ currentPath' = folderPath
         /\ pathHistory' = Append(pathHistory, folderPath)
         /\ StartScan(folderPath, "navigateToFolder")
  /\ UNCHANGED <<folderContent, selectedFiles>>
  /\ BrowserFrame

\* navigateBack
NavigateBack ==
  /\ currentPath # << >> /\ ~browserLoading
  /\ CanGoBack(pathHistory)
  /\ LET newHistory == SubSeq(pathHistory, 1, Len(pathHistory) - 1)
         previousPath == LastPath(newHistory)
     IN  /\ pathHistory' = newHistory
         /\ currentPath' = previousPath
         /\ StartScan(previousPath, "navigateBack")
  /\ UNCHANGED <<folderContent, selectedFiles>>
  /\ BrowserFrame

\* navigateUp
NavigateUp ==
  /\ currentPath # << >> /\ ~browserLoading
  /\ Len(pathHistory) < MaxHistory
  /\ LET parentPath == ParentPath(currentPath)
     IN  IF parentPath # << >> /\ parentPath # currentPath
         THEN /\ currentPath' = parentPath
              /\ pathHistory' = Append(pathHistory, parentPath)
              /\ StartScan(parentPath, "navigateUp")
         ELSE UNCHANGED <<currentPath, pathHistory, browserLoading, scan>>
  /\ UNCHANGED <<folderContent, selectedFiles>>
  /\ BrowserFrame

\* the button beside the error message: loadFolderContent(currentPath)
RetryLoad ==
  /\ currentPath # << >> /\ scan.pc = "failed"
  /\ StartScan(currentPath, "retry")
  /\ UNCHANGED <<currentPath, pathHistory, folderContent, selectedFiles>>
  /\ BrowserFrame

\* folderApi.scanFolderContent resolves or rejects; cleared notes the
\* selection the successful load replaced
ScanResolves(ok) ==
  /\ scan.pc = "scan"
  /\ IF ok
     THEN /\ folderContent' = <<scan.path>>
          /\ selectedFiles' = {}
          /\ scan' = [pc |-> "done", path |-> scan.path, by |-> scan.by,
                      cleared |-> selectedFiles]
     ELSE /\ scan' = [pc |-> "failed", path |-> scan.path]
          /\ UNCHANGED <<folderContent, selectedFiles>>
  /\ browserLoading' = FALSE
  /\ UNCHANGED <<currentPath, pathHistory>>
  /\ BrowserFrame

\* toggleFileSelection, from the file list
ToggleFileSelection(filePath) ==
  /\ currentPath # << >> /\ folderContent # << >> /\ ~browserLoading
  /\ selectedFiles' = IF filePath \in selectedFiles
                      THEN selectedFiles \ {filePath}
                      ELSE selectedFiles \cup {filePath}
  /\ UNCHANGED <<currentPath, pathHistory, folderContent, browserLoading, scan>>
  /\ BrowserFrame

\* selectAllFiles (its button is not disabled while loading)
SelectAllFiles ==
  /\ currentPath # << >> /\ folderContent # << >>
  /\ selectedFiles' = MediaFiles
  /\ UNCHANGED <<currentPath, pathHistory, folderContent, browserLoading, scan>>
  /\ BrowserFrame

\* clearSelection
ClearSelection ==
  /\ currentPath # << >> /\ folderContent # << >> /\ selectedFiles # {}
  /\ selectedFiles' = {}
  /\ UNCHANGED <<currentPath, pathHistory, folderContent, browserLoading, scan>>
  /\ BrowserFrame

BrowserInit == DbIdle /\ RelEmpty /\ PlayerIdle /\ SidebarIdle /\ PageIdle /\ BrowserIdle

BrowserNext ==
  \/ SelectFolder
  \/ \E selectedPath \in DialogPaths \cup {<< >>} : DialogReturns(selectedPath)
  \/ DialogFails
  \/ \E name \in SubfolderNames : NavigateToFolder(name)
  \/ NavigateBack
  \/ NavigateUp
  \/ RetryLoad
  \/ \E ok \in BOOLEAN : ScanResolves(ok)
  \/ \E filePath \in MediaFiles : ToggleFileSelection(filePath)
  \/ SelectAllFiles
  \/ ClearSelection

SpecBrowser == BrowserInit /\ [][BrowserNext]_vars

(***************************************************************************)
(* Claims about progress tracking                                           *)
(***************************************************************************)
RowsOf(v) == {i \in 1..Len(mockVideoProgress) : mockVideoProgress[i].video_id = v}

\* C1: once an interval callback has stored completed = true for a video,
\* the row keeps completed = true under every later automatic write; only
\* marking the video incomplete clears it.
C1_CompletionMonotonic ==
  \A v \in autoDone : \A i \in RowsOf(v) : mockVideoProgress[i].completed

\* C2: the progress store never holds two rows with the same video_id.
C2_OneRowPerVideo ==
  \A v \in VideoIds : Cardinality(RowsOf(v)) <= 1

\* video '2', which had no row, has been written twice in a row by interval
\* callbacks while the row of video '1' is there as well
C2_Witness ==
  /\ lastTick.video = "2" /\ lastTick.repeats = 2
  /\ RowsOf("1") # {} /\ RowsOf("2") # {}

\* C10: interval callbacks write a video's progress at most once per
\* coalescing window: two callbacks in a row that report the same position
\* of the same video do not both reach updateVideoProgress.
C10_OneWritePerWindow ==
  lastTick.repeats <= 1

\* C11: every seek persists the sought position: after handleSeek(time) the
\* row of the player's video holds current_time = time, playing or not.
C11_SeekPersistsPosition ==
  [][\A t \in SeekTimes :
       HandleSeek(t) =>
         \E i \in 1..Len(mockVideoProgress') :
           /\ mockVideoProgress'[i].video_id = video
           /\ mockVideoProgress'[i].current_time = t]_vars

\* C12: every stored progress row has 0 <= current_time <= duration.
C12_PositionWithinDuration ==
  \A i \in 1..Len(mockVideoProgress) :
    /\ 0 <= mockVideoProgress[i].current_time
    /\ mockVideoProgress[i].current_time <= mockVideoProgress[i].duration

\* C13: the completion flag an interval callback computes for position t and
\* duration d is true exactly when t is at or past 95% of d (20 t >= 19 d).
C13_ThresholdAt95Percent ==
  \A i \in 1..Len(callbacks) :
    callbacks[i].pc = "update" =>
      (callbacks[i].completed <=>
         20 * callbacks[i].current_time >= 19 * callbacks[i].duration)

\* a callback has computed the flag at exactly 95% of the mock duration
\* (1710 of 1800) and found it true
C13_Witness ==
  \E i \in 1..Len(callbacks) :
    /\ callbacks[i].pc = "update"
    /\ callbacks[i].duration = MockDuration
    /\ 20 * callbacks[i].current_time = 19 * MockDuration
    /\ callbacks[i].completed

\* C14: onVideoComplete is called only by an interval callback whose write
\* changed the row's completed from false to true, not again by later
\* callbacks while it stays true, and not by the ended event for a video
\* whose row an interval callback has completed already.
C14_HookOnlyOnTransition ==
  hook.called =>
    \/ hook.by = "tick" /\ hook.completed /\ ~hook.was
    \/ hook.by = "ended" /\ ~hook.was

\* C15: a video marked incomplete keeps completed = false under every
\* interval callback that finds it below the threshold (one that was
\* awaiting the status when it was marked included), and the first callback
\* that finds it at or past the threshold stores completed = true.
C15_MarkIncompleteThenThreshold ==
  /\ [](\A v \in cleared : ~RowCompleted(mockVideoProgress, v))
  /\ [][\A v \in cleared \ cleared' : RowCompleted(mockVideoProgress', v)]_vars

\* C16: the write that creates a video's row gives it watch_count = 1, no
\* later write of an interval callback changes watch_count, and watch_count
\* only ever grows, and only in the step that starts a play session.
C16_WatchCountStartsAtOne ==
  [][/\ \A i \in 1..Len(mockVideoProgress') :
          i > Len(mockVideoProgress) => mockVideoProgress'[i].watch_count = 1
     /\ \A i \in 1..Len(mockVideoProgress) :
          \/ mockVideoProgress'[i].watch_count = mockVideoProgress[i].watch_count
          \/ /\ mockVideoProgress'[i].watch_count > mockVideoProgress[i].watch_count
             /\ HandlePlayStart]_vars

\* video '2' was marked incomplete, and an interval callback has since
\* written its row at a position below the threshold
C15_Witness ==
  /\ "2" \in cleared
  /\ lastTick.video = "2" /\ lastTick.repeats >= 1
  /\ \E i \in RowsOf("2") : mockVideoProgress[i].duration = MockDuration

\* C23: an interval callback that reads duration 0 stores completed = false
\* and does not call onVideoComplete, whatever position it reads; no row with
\* duration 0 is stored as completed.
C23_ZeroDurationNeverCompletes ==
  /\ [](/\ \A i \in 1..Len(callbacks) :
             (callbacks[i].pc = "update" /\ callbacks[i].duration = 0) =>
               ~callbacks[i].completed
        /\ \A i \in 1..Len(mockVideoProgress) :
             mockVideoProgress[i].duration = 0 => ~mockVideoProgress[i].completed)
  /\ [][\A i \in 1..MaxInFlight :
          (UpdateResolves(i) /\ callbacks[i].duration = 0) => ~hook'.called]_vars

\* the callback's video and closed-over progress belong to no interval that
\* is set: the interval that started the callback has been cleared
TrackingStopped(cb) == \A t \in timers : t.video # cb.video \/ t.prog # cb.prog

\* C24: once the interval has been cleared (pause, stop, another video), a
\* callback it had already started neither writes the progress nor goes on
\* to setProgress, onProgressUpdate and onVideoComplete.
C24_NoWriteAfterTrackingStopped ==
  [][\A i \in 1..MaxInFlight :
       /\ (StatusArrives(i) /\ callbacks[i].video # NULL) =>
            ~TrackingStopped(callbacks[i])
       /\ UpdateResolves(i) => ~TrackingStopped(callbacks[i])]_vars

\* C26: at most one interval is set at any time; an interval is set only
\* while isPlaying is true, and none is set once the component is unmounted.
C26_AtMostOneTimer ==
  /\ Cardinality(timers) <= 1
  /\ timers # {} => isPlaying
  /\ ~mounted => timers = {}

\* C26, its case: the component was unmounted while playing, with an interval
\* set and one of its callbacks under way
C26_Witness ==
  /\ ~mounted /\ isPlaying /\ intervalRef # 0
  /\ Len(callbacks) > 0

\* C28: an interval callback whose getVideoStatus or updateVideoProgress
\* fails changes nothing: progress is as before, the stored rows are as
\* before, neither onProgressUpdate nor onVideoComplete is called, and the
\* interval stays set for the next tick.
C28_FailingTickChangesNothing ==
  [][\A i \in 1..MaxInFlight :
       (StatusFails(i) \/ WriteFails(i)) =>
         /\ progress' = progress
         /\ mockVideoProgress' = mockVideoProgress
         /\ hook'.by # "tick" /\ ~hook'.called
         /\ isPlaying' = isPlaying /\ timers' = timers]_vars

(***************************************************************************)
(* Claims about creating and deleting notes and bookmarks                   *)
(***************************************************************************)
\* s is empty or consists of spaces only
WhitespaceOnly(s) == \A i \in 1..Len(s) : s[i] = " "

\* the video's duration bounds the timestamp
WithinVideo(videoId, timestamp) ==
  \A v \in videos : v.id = videoId => 0 <= timestamp /\ timestamp <= v.duration

\* C17: deleting a note or a bookmark answers success whether or not the id is
\* stored (also when the same id is deleted a second time); the row of that id
\* is gone afterwards, an id that was not stored changes nothing, and every
\* other row of both tables is as it was.
C17_DeleteIsIdempotent ==
  [][/\ \A id \in StoredNoteIds : HandleDeleteNote(id, TRUE) =>
          /\ lastCall'.called /\ lastCall'.result = "ok"
          /\ id \notin Ids(user_notes')
          /\ user_notes' \subseteq user_notes
          /\ \A r \in user_notes : r.id # id => r \in user_notes'
          /\ video_bookmarks' = video_bookmarks
     /\ \A id \in StoredBookmarkIds : HandleDeleteBookmark(id, TRUE) =>
          /\ lastCall'.called /\ lastCall'.result = "ok"
          /\ id \notin Ids(video_bookmarks')
          /\ video_bookmarks' \subseteq video_bookmarks
          /\ \A r \in video_bookmarks : r.id # id => r \in video_bookmarks'
          /\ user_notes' = user_notes]_vars

\* C17, its case: a note that was already deleted is deleted again while
\* another note is stored, and the answer is success
C17_Witness ==
  /\ lastCall.handler = "handleDeleteNote" /\ lastCall.called /\ ~lastCall.found
  /\ lastCall.result = "ok"
  /\ user_notes # {}

C21_UpdateChangesTitleAndContentOnly ==
  [][(HandleUpdateNote /\ lastCall'.called) =>
       LET id == editingNote[1].id
       IN  IF id \in Ids(user_notes)
           THEN /\ lastCall'.result = "ok"
                /\ Ids(user_notes') = Ids(user_notes)
                /\ \A r \in user_notes : \E q \in user_notes' :
                     /\ q.id = r.id /\ q.video_id = r.video_id
                     /\ q.course_id = r.course_id /\ q.module_id = r.module_id
                     /\ q.timestamp = r.timestamp /\ q.note_type = r.note_type
                     /\ q.created_at = r.created_at
                     /\ IF r.id = id
                        THEN /\ q.title = editingNote[1].title
                             /\ q.content = editingNote[1].content
                             /\ q.updated_at = <<now, 0>>
                        ELSE q = r
           ELSE /\ lastCall'.result = "NotFoundError"
                /\ user_notes' = user_notes]_vars

\* C21, its case: a note was updated at a later time than it was created, and
\* then an update of a note that had been deleted was answered NotFoundError
C21_Witness ==
  /\ lastCall.handler = "handleUpdateNote" /\ lastCall.called /\ ~lastCall.found
  /\ lastCall.result = "NotFoundError"
  /\ \E r \in user_notes : r.title = <<"c">> /\ r.updated_at = <<2, 0>>

(***************************************************************************)
(* Claims about the notes list                                              *)
(***************************************************************************)
\* the term occurs in the text, letter case aside
TermOccurs(text, term) ==
  \E i \in 0..(Len(text) - Len(term)) :
    \A j \in 1..Len(term) : LowerChar(text[i + j]) = LowerChar(term[j])

\* the first key comes before or with the second, in the direction chosen
InOrder(a, b) ==
  LET k == CASE sortBy = "timestamp" ->
                  (IF a.timestamp = << >> THEN 0 ELSE a.timestamp[1])
                    - (IF b.timestamp = << >> THEN 0 ELSE b.timestamp[1])
             [] sortBy = "created" ->
                  (a.created_at[1] * 24 + a.created_at[2])
                    - (b.created_at[1] * 24 + b.created_at[2])
             [] sortBy = "title" -> localeCompare(a.title, b.title)
  IN  IF sortOrder = "asc" THEN k <= 0 ELSE k >= 0

\* C20: the listed notes are in the order of the chosen key and direction
\* (timestamp ascending unless chosen otherwise, a note without a timestamp
\* counting as 0), and they are exactly the loaded notes that match the
\* search term and the type filter, each once.
C20_ListedNotesFilteredAndOrdered ==
  /\ \A i, j \in 1..Len(filteredNotes) :
       i < j => InOrder(filteredNotes[i], filteredNotes[j])
  /\ \A i, j \in 1..Len(filteredNotes) :
       filteredNotes[i] = filteredNotes[j] => i = j
  /\ {filteredNotes[i] : i \in 1..Len(filteredNotes)}
       = {n \in {notes[i] : i \in 1..Len(notes)} :
            /\ TermOccurs(n.title, searchTerm) \/ TermOccurs(n.content, searchTerm)
            /\ selectedNoteType = "all" \/ n.note_type = selectedNoteType}

\* three notes are loaded out of order and listed by timestamp descending;
\* the search term "a" leaves out the first of them, finds "Ab", and the
\* note without a timestamp is listed last
C20_Witness ==
  /\ Len(notes) = 3 /\ notes[1].id = "n1"
  /\ sortBy = "timestamp" /\ sortOrder = "desc"
  /\ searchTerm = <<"a">>
  /\ Len(filteredNotes) = 2
  /\ filteredNotes[1].id = "n3"
  /\ filteredNotes[2].timestamp = << >>

\* C27: every stored note of a video carries the course_id and module_id of
\* that video, whichever notes view created it.
C27_NoteCarriesVideosCourseAndModule ==
  \A n \in user_notes : \A v \in videos :
    v.id = n.video_id => n.course_id = v.course_id /\ n.module_id = v.module_id

(***************************************************************************)
(* Claims about the folder-browser page and the folder browser              *)
(***************************************************************************)
\* C25: a completion notification (from an interval callback or the ended
\* event) leaves the playlist as it is and either leaves currentIndex or
\* moves it to the next item; with the last item current it leaves it.
C25_PlaylistAdvancesByOne ==
  [][((\E cb \in inflight : PlayerTickResolves(cb, TRUE)) \/ PlayerEnded) =>
       /\ playlist' = playlist
       /\ currentIndex' = currentIndex \/ currentIndex' = currentIndex + 1
       /\ currentIndex = Len(playlist) - 1 => currentIndex' = currentIndex]_vars

\* C29: whenever the playlist is not empty, 0 <= currentIndex < its length
\* and currentVideo is the playlist item at currentIndex.
C29_IndexWithinPlaylist ==
  playlist # << >> =>
    /\ 0 <= currentIndex /\ currentIndex < Len(playlist)
    /\ currentVideo = playlist[currentIndex + 1]

\* C30: once a folder has been selected pathHistory is never empty again and
\* currentPath is its last element (before that both are empty); back keeps
\* the first entry of pathHistory; a successful folder load leaves no file
\* selected.
C30_HistoryNeverEmptyAfterSelect ==
  /\ [](IF pathHistory = << >> THEN currentPath = << >>
        ELSE currentPath = pathHistory[Len(pathHistory)])
  /\ [][/\ pathHistory # << >> => pathHistory' # << >>
        /\ NavigateBack => /\ pathHistory' # << >>
                           /\ pathHistory'[1] = pathHistory[1]
        /\ ScanResolves(TRUE) => selectedFiles' = {}]_vars

\* C30 witness: a load started by back has succeeded with a file selected
\* at the time, and only the first history entry is left.
C30_Witness ==
  /\ scan.pc = "done" /\ scan.by = "navigateBack" /\ scan.cleared # {}
  /\ Len(pathHistory) = 1 /\ currentPath = pathHistory[1]
  /\ folderContent = <<currentPath>> /\ selectedFiles = {}

(***************************************************************************)
(* Claims about the schema's foreign keys                                   *)
(***************************************************************************)
NoOrphans ==
  /\ \A m \in modules : m.course_id \in courses
  /\ \A v \in videos : v.module_id \in Ids(modules) /\ v.course_id \in courses
  /\ \A p \in video_progress : p.video_id \in Ids(videos)
  /\ \A n \in user_notes :
       /\ n.video_id \in Ids(videos) \cup {NULL}
       /\ n.course_id \in courses \cup {NULL}
       /\ n.module_id \in Ids(modules) \cup {NULL}
  /\ \A b \in video_bookmarks : b.video_id \in Ids(videos)

\* C3: deleting course C removes every module of C, every video that
\* references C or one of those modules, and every progress, note and
\* bookmark row that references C, one of those modules or one of those
\* videos; afterwards no foreign key names a row that is gone.
C3_DeleteCourseCascades ==
  [][lastSql'.op = "delete_course" =>
       LET c == lastSql'.id
           ms == {m.id : m \in {x \in modules : x.course_id = c}}
           vs == {v.id : v \in {x \in videos : x.course_id = c \/ x.module_id \in ms}}
       IN  /\ c \notin courses'
           /\ \A m \in modules' : m.id \notin ms
           /\ \A v \in videos' : v.id \notin vs
           /\ \A p \in video_progress' : p.video_id \notin vs
           /\ \A n \in user_notes' :
                n.course_id # c /\ n.module_id \notin ms /\ n.video_id \notin vs
           /\ \A b \in video_bookmarks' : b.video_id \notin vs
           /\ NoOrphans']_vars

\* a course has been deleted, the delete took at least four dependent
\* rows with it, and rows of another course are still there
C3_Witness ==
  /\ lastSql.op = "delete_course"
  /\ lastSql.cascaded >= 4
  /\ courses # {} /\ modules # {} /\ user_notes # {}

VersionNumber(v) ==
  CASE v = "1" -> 1 [] v = "2" -> 2 [] v = "3" -> 3 [] OTHER -> 0

IsV1(store) == store.exists /\ store.meta.version = "1"

IsV2(store) == store.exists /\ store.meta.version = "2"

SettingTriples(store) == {<<s.key, s.value, s.type>> : s \in store.settings}

\* C4: a run of the initialisation against a version-1 store leaves every
\* row that was there unchanged, adds the four version-2 tables and ends
\* with database_metadata.version = "2".
C4_UpgradeKeepsRowsAndReachesV2 ==
  [][(IsV1(db) /\ lastRun'.op \in {"exists", "init", "force"} /\ lastRun'.ok)
       => /\ db'.data = db.data
          /\ V2Tables \subseteq db'.tables
          /\ db'.meta.version = "2"]_vars

\* C5: an initialisation in which a statement fails leaves none of its
\* effects in the store: the store is what it was before the run.
C5_FailedInitLeavesNoEffect ==
  [][(lastRun'.op = "init" /\ ~lastRun'.ok) => db' = db]_vars

\* C6: running the initialisation again on a store that is at version 2
\* changes nothing: tables, rows, settings and the metadata values version,
\* created_at and last_migration are what they were.
C6_RerunIsNoOp ==
  [][(IsV2(db) /\ lastRun'.op \in {"exists", "cancelled", "init"})
       => /\ db'.tables = db.tables
          /\ db'.data = db.data
          /\ db'.settings = db.settings
          /\ db'.meta = db.meta]_vars

\* a version-2 store with rows, initialised earlier than now, on which the
\* script has just been run again
C6_Witness ==
  /\ IsV2(db)
  /\ lastRun.op = "exists"
  /\ db.data # {}
  /\ db.meta.last_migration < now

\* C7: the seed keeps every settings row that exists (so a value the user
\* changed stays), adds a default only under a key that had no row, and
\* never leaves two rows under one key.
C7_SeedKeepsUserValues ==
  [][lastRun'.op = "seed"
       => /\ db.settings \subseteq db'.settings
          /\ \A s \in db'.settings \ db.settings :
               /\ s \in DefaultSettings
               /\ \A o \in db.settings : o.key # s.key
          /\ \A a \in db'.settings, b \in db'.settings : a.key = b.key => a = b]_vars

\* the seed has run on a store whose theme the user had set to light, and
\* has filled in a default that was missing
C7_Witness ==
  /\ lastRun.op = "seed" /\ lastRun.ok
  /\ \E s \in db.settings : s.key = "theme" /\ s.value = "light"
  /\ \E s \in db.settings : s.key = "volume" /\ s.value = "0.8"
  /\ db.meta.last_migration = now /\ now > 1

\* C8: a successful initialisation of a store that did not exist ends with
\* all nine tables, exactly the seven default settings and version "2".
C8_FreshInitReachesTarget ==
  (lastRun.op \in {"init", "force"} /\ lastRun.ok)
    => /\ db.exists
       /\ db.tables = {"courses", "modules", "videos", "video_progress",
                       "user_notes", "video_bookmarks", "user_settings",
                       "activity_log", "database_metadata"}
       /\ SettingTriples(db) =
            { <<"theme", "dark", "string">>,
              <<"auto_play_next", "true", "boolean">>,
              <<"playback_speed", "1.0", "number">>,
              <<"volume", "0.8", "number">>,
              <<"auto_save_progress", "true", "boolean">>,
              <<"show_subtitles", "false", "boolean">>,
              <<"language", "pt-BR", "string">> }
       /\ Cardinality(db.settings) = 7
       /\ db.meta.version = "2"

\* a store that did not exist has just been initialised without an error
C8_Witness ==
  /\ lastRun.op = "init" /\ lastRun.ok
  /\ db.exists /\ db.meta.created_at = now

\* C9: the version check refuses a store whose version is newer than 2: it
\* reports failure and does not label the store outdated or usable.
C9_NewerVersionRefused ==
  (lastRun.op = "verify" /\ db.exists /\ VersionNumber(db.meta.version) > 2)
    => /\ ~lastRun.ok
       /\ lastRun.label \notin {"OK", "DESATUALIZADA"}

====
